---- MODULE Spec2Model ----
(***************************************************************************)
(* Batch operation engine, operation log and undo subsystem of the file    *)
(* organiser: core/mover.py, core/renamer.py, core/undo.py and their API   *)
(* routes.  Every coroutine is cut at its await points: one action is one  *)
(* synchronous segment, or the effect of one awaited database or thread    *)
(* call.  The event loop may run any other task between two actions.       *)
(***************************************************************************)
EXTENDS Integers, Sequences, FiniteSets, TLC

(***************************************************************************)
(* Bounds of the model.                                                    *)
(***************************************************************************)
MaxExecutes == 1
MaxUndos == 1
ExecJobs == 2
UndoRequests == 2
MaxDisturbances == 1
SerialUndos == 2
InputRequests == 2

(***************************************************************************)
(* Program constants.                                                      *)
(***************************************************************************)
ConflictLimit == 9999

(***************************************************************************)
(* Paths.  A path is <<directory, stem, suffix>>; the suffix is the digit  *)
(* string that a conflict resolver put after "_" (<<>> when there is       *)
(* none).  The extension is carried along unchanged and is left out.       *)
(***************************************************************************)
NoPath == <<"", "", <<>>>>

P(dir, stem) == <<dir, stem, <<>>>>

RECURSIVE Digits(_)
Digits(n) == IF n < 10 THEN <<n>> ELSE Append(Digits(n \div 10), n % 10)

\* f"{stem}_{counter}{suffix}"
mover_candidate(target, counter) == <<target[1], target[2] , target[3] \o Digits(counter)>>

\* f"{stem}_{counter:02d}{suffix}"
renamer_candidate(target, counter) ==
    <<target[1], target[2], target[3] \o (IF counter < 10 THEN <<0, counter>> ELSE Digits(counter))>>

(***************************************************************************)
(* The filesystem: a function from the paths that exist to the file that   *)
(* is there.  Directories are not modelled; mkdir(parents, exist_ok)       *)
(* either succeeds without a visible change or fails.                      *)
(***************************************************************************)
exists(f, p) == p \in DOMAIN f

Remove(f, p) == [q \in (DOMAIN f) \ {p} |-> f[q]]

Put(f, p, v) == [q \in (DOMAIN f) \cup {p} |-> IF q = p THEN v ELSE f[q]]

shutil_move_keeping_src(f, src, dst) == Put(f, dst, f[src])

\* shutil.move(src, dst) on one volume: os.rename, which replaces a file at dst
shutil_move(f, src, dst) == IF src = dst THEN f ELSE Put(Remove(f, src), dst, f[src])

(***************************************************************************)
(* Conflict resolvers.                                                     *)
(***************************************************************************)
\* the iterations counter..last of the while loop, in order: the counter of the
\* first candidate that does not exist, 0 when all of them exist (the range is
\* halved because one level of recursion for each iteration is too deep)
RECURSIVE mover_resolve_run(_, _, _, _)
mover_resolve_run(f, target, counter, last) ==
    IF counter = last
    THEN IF ~exists(f, mover_candidate(target, counter)) THEN counter ELSE 0
    ELSE LET mid == (counter + last) \div 2 IN
         CHOOSE free \in {IF first # 0 THEN first
                          ELSE mover_resolve_run(f, target, mid + 1, last) :
                             first \in {mover_resolve_run(f, target, counter, mid)}} : TRUE

\* the while loop: counter = 1, 2, ... until a candidate is free or counter > 9999
mover_resolve_loop(f, target, counter) ==
    LET free == mover_resolve_run(f, target, counter, ConflictLimit) IN
    IF free # 0
    THEN [ok |-> TRUE, path |-> mover_candidate(target, free), examined |-> free]
    ELSE [ok |-> FALSE, path |-> target, examined |-> ConflictLimit]

mover_resolve_without_test(f, target) == mover_resolve_loop(f, target, 1)

mover_resolve_keeping_target(f, target) == [ok |-> TRUE, path |-> target, examined |-> 0]

mover_resolve_name_conflict(f, target) ==
    IF ~exists(f, target) THEN [ok |-> TRUE, path |-> target, examined |-> 0]
    ELSE mover_resolve_loop(f, target, 1)

\* the iterations counter..last of the while loop, in order: the counter of the
\* first candidate that does not exist, 0 when all of them exist (the range is
\* halved because one level of recursion for each iteration is too deep)
RECURSIVE renamer_resolve_run(_, _, _, _)
renamer_resolve_run(f, target, counter, last) ==
    IF counter = last
    THEN IF ~exists(f, renamer_candidate(target, counter)) THEN counter ELSE 0
    ELSE LET mid == (counter + last) \div 2 IN
         CHOOSE free \in {IF first # 0 THEN first
                          ELSE renamer_resolve_run(f, target, mid + 1, last) :
                             first \in {renamer_resolve_run(f, target, counter, mid)}} : TRUE

renamer_resolve_loop_one_more(f, target, counter) ==
    LET free == renamer_resolve_run(f, target, counter, ConflictLimit + 1) IN
    IF free # 0
    THEN [ok |-> TRUE, path |-> renamer_candidate(target, free), examined |-> free]
    ELSE [ok |-> FALSE, path |-> target, examined |-> ConflictLimit + 1]

\* the while loop: counter = 1, 2, ... until a candidate is free or counter > 9999
renamer_resolve_loop(f, target, counter) ==
    LET free == renamer_resolve_run(f, target, counter, ConflictLimit) IN
    IF free # 0
    THEN [ok |-> TRUE, path |-> renamer_candidate(target, free), examined |-> free]
    ELSE [ok |-> FALSE, path |-> target, examined |-> ConflictLimit]

renamer_resolve_name_conflict(f, target) ==
    IF ~exists(f, target) THEN [ok |-> TRUE, path |-> target, examined |-> 0]
    ELSE renamer_resolve_loop(f, target, 1)

(***************************************************************************)
(* Dictionaries (Python dict): functions whose domain is the key set.      *)
(***************************************************************************)
EmptyDict == [k \in {} |-> 0]

DictSet(d, k, v) == [x \in (DOMAIN d) \cup {k} |-> IF x = k THEN v ELSE d[x]]

DictPop(d, k) == [x \in (DOMAIN d) \ {k} |-> d[x]]

(***************************************************************************)
(* The world the requests draw their inputs from.                          *)
(***************************************************************************)
MoveBatchIds == {"m1"}
RenameBatchIds == {"r1"}
BatchIds == MoveBatchIds \cup RenameBatchIds

\* scan_files rows: id -> path
ScanFiles == (1 :> P("a", "x")) @@ (2 :> P("b", "x"))

\* ids a confirmation may name; 3 has no scan_files row
ScanIds == {1, 2, 3}

NewNames == {"x", "y"}

InitFs == (P("a", "x") :> "f1") @@ (P("b", "x") :> "f2")

MoveItem(id, src, tgt) == [id |-> id, source_path |-> src, target_path |-> tgt]

\* the previews the rule matcher may have produced: target = rule dir / file name
StagedChoices ==
    { << MoveItem(0, P("a", "x"), P("out", "x")), MoveItem(1, P("b", "x"), P("out", "x")) >> }

\* the selected_ids a client may send to /move/execute; 2 is no staged item
MoveSelections == {{}, {1}, {0, 1}, {0, 2}}

\* directories below /Volumes/<name>: they and their files are only there
\* while the volume is mounted
VolumeDirs == {"b"}

OnVolume(p) == p[1] \in VolumeDirs

\* paths an outside program creates or deletes files at
EnvPaths == {P("a", "x"), P("out", "x"), P("a", "y")}

VARIABLES
    fs,            \* the filesystem
    log,           \* operation_log rows; the id of a row is its index
    moveCache,     \* mover._batch_cache
    moveStatus,    \* mover._batch_status: batch id -> index of its dict in moveObjs
    moveObjs,      \* the status dicts the mover created, in creation order
    moveJobs,      \* background tasks running mover.execute_batch
    renameCache,   \* renamer._batch_cache
    renameStatus,  \* renamer._batch_status
    renameJobs,    \* background tasks running renamer.execute_batch
    undoOnes,      \* requests running undo.undo_single_operation
    undoProgress,  \* undo._undo_progress: batch id -> index of its dict in undoObjs
    undoObjs,      \* the progress dicts the undo engine created, in creation order
    undoJobs,      \* background tasks running undo.undo_batch_operations
    volume,        \* the removable volume: is it mounted, and its files while it is not
    fsMoves,       \* history: the <<source, target>> moves the executors performed
    executes,      \* number of execute requests made so far
    undos,         \* number of undo requests made so far
    disturbances,  \* number of calls that raised plus changes made by other programs
    resolved,      \* the last direct call of a conflict resolver and what it returned
    refused        \* the execute requests answered with an error, in order

vars == <<fs, volume, log, moveCache, moveStatus, moveObjs, moveJobs, renameCache, renameStatus,
          renameJobs, undoOnes, undoProgress, undoObjs, undoJobs, fsMoves,
          executes, undos, disturbances, resolved, refused>>

(***************************************************************************)
(* Operation log.                                                          *)
(***************************************************************************)
LogRow(batch, type, src, tgt, status) ==
    [id |-> 0, batch_id |-> batch, operation_type |-> type,
     source_path |-> src, target_path |-> tgt, status |-> status]

\* INSERT INTO operation_log: AUTOINCREMENT assigns the next id
insert_row(l, row) == Append(l, [row EXCEPT !.id = Len(l) + 1])

update_status_ignored(l, operation_id, new_status) == l

update_status_and_path(l, operation_id, new_status) ==
    [i \in DOMAIN l |-> IF l[i].id = operation_id
                        THEN [l[i] EXCEPT !.status = new_status,
                                          !.target_path = l[i].source_path]
                        ELSE l[i]]

\* UPDATE operation_log SET status = ? WHERE id = ?
update_status(l, operation_id, new_status) ==
    [i \in DOMAIN l |-> IF l[i].id = operation_id
                        THEN [l[i] EXCEPT !.status = new_status] ELSE l[i]]

\* a call raises, or another program interferes, only while the budget lasts
CanFault == disturbances < MaxDisturbances


(***************************************************************************)
(* Move: preview, execute route, background job (core/mover.py).           *)
(***************************************************************************)
MoveStatusRec(total, done, errors) ==
    [total |-> total, moved |-> 0, failed |-> 0, done |-> done, errors |-> errors]

\* the dict a poller of /move/batch/{id}/status reads
move_status_of(b) == moveObjs[moveStatus[b]]

\* match_files_to_rules: stage the preview under a fresh batch id
match_files_to_rules(b, items) ==
    /\ b \notin DOMAIN moveCache
    /\ b \notin DOMAIN moveStatus
    /\ moveCache' = DictSet(moveCache, b, items)
    /\ moveObjs' = Append(moveObjs, MoveStatusRec(Len(items), FALSE, <<>>))
    /\ moveStatus' = DictSet(moveStatus, b, Len(moveObjs) + 1)
    /\ UNCHANGED <<refused, resolved, volume, fs, log, moveJobs, renameCache, renameStatus, renameJobs, undoOnes,
                   undoProgress, undoObjs, undoJobs, fsMoves, executes, undos,
                   disturbances>>

MoveJob(b, sel) ==
    [pc |-> "queued", batch |-> b, sel |-> sel, items |-> <<>>, i |-> 0,
     status |-> 0, actual |-> NoPath, opst |-> "completed"]

CachedIds(items) == {items[k].id : k \in DOMAIN items}

execute_move_response_without_cache_test(b, sel) == IF sel = {} THEN 422 ELSE 200

\* POST /move/execute: the status code of the response
execute_move_response(b, sel) ==
    IF b \notin DOMAIN moveCache THEN 404
    ELSE IF sel = {} THEN 422
    ELSE IF sel \ CachedIds(moveCache[b]) # {} THEN 422
    ELSE 200

Refused(kind, b, code) == [kind |-> kind, batch |-> b, code |-> code]

\* POST /move/execute: a request answered with an error starts no job
execute_move(b, sel, limit) ==
    /\ executes < limit
    /\ executes' = executes + 1
    /\ IF execute_move_response(b, sel) = 200
       THEN /\ moveJobs' = Append(moveJobs, MoveJob(b, sel))
            /\ UNCHANGED refused
       ELSE /\ refused' = Append(refused, Refused("move", b, execute_move_response(b, sel)))
            /\ UNCHANGED moveJobs
    /\ UNCHANGED <<resolved, volume, fs, log, moveCache, moveStatus, moveObjs, renameCache, renameStatus,
                   renameJobs, undoOnes, undoProgress, undoObjs, undoJobs, fsMoves,
                   undos, disturbances>>

items_to_move_unfiltered(cached, sel) == cached

items_to_move_reversed(cached, sel) ==
    LET kept == SelectSeq(cached, LAMBDA it : it.id \in sel) IN
    [k \in DOMAIN kept |-> kept[Len(kept) + 1 - k]]

\* [item for item in cached_items if item.id in selected_set]
items_to_move(cached, sel) == SelectSeq(cached, LAMBDA it : it.id \in sel)

\* execute_batch up to "db = await get_db()"
mover_execute_batch_start(j) ==
    LET job == moveJobs[j]
        b == job.batch
    IN
    /\ job.pc = "queued"
    /\ IF b \notin DOMAIN moveCache
       THEN /\ moveObjs' = Append(moveObjs, MoveStatusRec(0, TRUE, <<"notfound">>))
            /\ moveStatus' = DictSet(moveStatus, b, Len(moveObjs) + 1)
            /\ moveJobs' = [moveJobs EXCEPT ![j].pc = "ended",
                                            ![j].status = Len(moveObjs) + 1]
            /\ UNCHANGED disturbances
       ELSE LET items == items_to_move(moveCache[b], job.sel)
                fresh == b \notin DOMAIN moveStatus
                ref == IF fresh THEN Len(moveObjs) + 1 ELSE moveStatus[b]
                rec == MoveStatusRec(Len(items), FALSE, <<>>)
            IN
            /\ moveObjs' = IF fresh THEN Append(moveObjs, rec)
                           ELSE [moveObjs EXCEPT ![ref] = rec]
            /\ moveStatus' = DictSet(moveStatus, b, ref)
            /\ \E dbok \in BOOLEAN :
                 /\ ~dbok => CanFault
                 /\ disturbances' = IF dbok THEN disturbances ELSE disturbances + 1
                 /\ moveJobs' = [moveJobs EXCEPT ![j] =
                        [job EXCEPT !.items = items, !.status = ref, !.i = 1,
                                    !.pc = IF ~dbok THEN "crashed"
                                           ELSE IF items = <<>> THEN "finish"
                                           ELSE "item"]]
    /\ UNCHANGED <<refused, resolved, volume, fs, log, moveCache, renameCache, renameStatus, renameJobs, undoOnes,
                   undoProgress, undoObjs, undoJobs, fsMoves, executes, undos>>

\* what the filesystem may answer to an item: mkdir or the move raises
MoveFaults == {"none", "mkdir_perm", "move_os"}

FaultError(fault) == IF fault \in {"mkdir_perm", "move_perm"} THEN "perm" ELSE "oserr"

\* one pass through the inner try block: what it does to the filesystem,
\* the actual target and the exception it ends with ("none" when it moved)
mover_try_item(f, source, target, fault) ==
    IF ~exists(f, source)
    THEN [fs |-> f, actual |-> target, error |-> "missing"]
    ELSE IF fault \in {"mkdir_perm", "mkdir_os"}
    THEN [fs |-> f, actual |-> target, error |-> FaultError(fault)]
    ELSE LET res == mover_resolve_name_conflict(f, target) IN
         IF ~res.ok
         THEN [fs |-> f, actual |-> target, error |-> "oserr"]
         ELSE IF fault \in {"move_perm", "move_os"}
         THEN [fs |-> f, actual |-> res.path, error |-> FaultError(fault)]
         ELSE [fs |-> shutil_move(f, source, res.path), actual |-> res.path,
               error |-> "none"]

mover_op_status_always_completed(error) == "completed"

\* op_status: "completed", or "failed" once an except clause ran
mover_op_status(error) == IF error = "none" THEN "completed" ELSE "failed"

\* the three except clauses: count the failure and keep its message
count_failure(rec, error) ==
    [rec EXCEPT !.failed = @ + 1, !.errors = Append(@, error)]

\* one loop iteration up to "await db.execute(INSERT ...)"
mover_execute_batch_item(j) ==
    LET job == moveJobs[j]
        item == job.items[job.i]
    IN
    /\ job.pc = "item"
    /\ \E fault \in MoveFaults :
         /\ fault # "none" => (CanFault /\ exists(fs, item.source_path))
         /\ disturbances' = IF fault = "none" THEN disturbances ELSE disturbances + 1
         /\ LET r == mover_try_item(fs, item.source_path, item.target_path, fault) IN
            /\ fs' = r.fs
            /\ fsMoves' = IF r.error = "none"
                          THEN fsMoves \cup {<<item.source_path, r.actual>>}
                          ELSE fsMoves
            /\ moveObjs' = [moveObjs EXCEPT ![job.status] =
                              IF r.error = "none" THEN [@ EXCEPT !.moved = @ + 1]
                              ELSE count_failure(@, r.error)]
            /\ moveJobs' = [moveJobs EXCEPT ![j] =
                              [job EXCEPT !.actual = r.actual,
                                          !.opst = mover_op_status(r.error),
                                          !.pc = "log"]]
    /\ UNCHANGED <<refused, resolved, volume, log, moveCache, moveStatus, renameCache, renameStatus, renameJobs,
                   undoOnes, undoProgress, undoObjs, undoJobs, executes, undos>>

\* the INSERT and its commit; an exception reaches the outer except clause
mover_execute_batch_log(j) ==
    LET job == moveJobs[j]
        item == job.items[job.i]
    IN
    /\ job.pc = "log"
    /\ \E dbok \in BOOLEAN :
         /\ ~dbok => CanFault
         /\ disturbances' = IF dbok THEN disturbances ELSE disturbances + 1
         /\ IF dbok
            THEN /\ log' = insert_row(log, LogRow(job.batch, "MOVE", item.source_path,
                                                  job.actual, job.opst))
                 /\ moveJobs' = [moveJobs EXCEPT ![j].i = job.i + 1,
                                    ![j].pc = IF job.i = Len(job.items) THEN "finish"
                                              ELSE "item"]
                 /\ UNCHANGED moveObjs
            ELSE /\ moveObjs' = [moveObjs EXCEPT ![job.status] =
                                    [@ EXCEPT !.errors = Append(@, "unexpected"),
                                              !.done = TRUE]]
                 /\ moveJobs' = [moveJobs EXCEPT ![j].pc = "close"]
                 /\ UNCHANGED log
    /\ UNCHANGED <<refused, resolved, volume, fs, moveCache, moveStatus, renameCache, renameStatus, renameJobs,
                   undoOnes, undoProgress, undoObjs, undoJobs, fsMoves,
                   executes, undos>>

\* status["done"] = True after the loop, up to "await db.close()"
mover_execute_batch_finish(j) ==
    LET job == moveJobs[j] IN
    /\ job.pc = "finish"
    /\ moveObjs' = [moveObjs EXCEPT ![job.status].done = TRUE]
    /\ moveJobs' = [moveJobs EXCEPT ![j].pc = "close"]
    /\ UNCHANGED <<refused, resolved, volume, fs, log, moveCache, moveStatus, renameCache, renameStatus, renameJobs,
                   undoOnes, undoProgress, undoObjs, undoJobs, fsMoves,
                   executes, undos, disturbances>>

\* _batch_cache.pop(batch_id, None)
mover_execute_batch_cleanup(j) ==
    LET job == moveJobs[j] IN
    /\ job.pc = "close"
    /\ moveCache' = DictPop(moveCache, job.batch)
    /\ moveJobs' = [moveJobs EXCEPT ![j].pc = "ended"]
    /\ UNCHANGED <<refused, resolved, volume, fs, log, moveStatus, moveObjs, renameCache, renameStatus, renameJobs,
                   undoOnes, undoProgress, undoObjs, undoJobs, fsMoves,
                   executes, undos, disturbances>>

(***************************************************************************)
(* Rename: preview, execute route, background job (core/renamer.py).       *)
(***************************************************************************)
RenameItem(id, name) == [scan_file_id |-> id, new_filename |-> name]

\* the previews generate_preview may have cached
RenamePreviews == { << RenameItem(1, "y"), RenameItem(2, "y") >> }

\* the confirmed item lists a client may send to /rename/execute
\* (the first one lists the rows of the preview in another order; the second
\* one repeats id 1, asks for the name the file has, and names id 3, which has
\* no scan_files row)
RenameSubmissions ==
    { <<>>,
      << RenameItem(2, "y"), RenameItem(1, "y") >>,
      << RenameItem(1, "y"), RenameItem(1, "x"), RenameItem(3, "y") >> }

RenameStatusRec(total) ==
    [total |-> total, renamed |-> 0, failed |-> 0, done |-> FALSE, errors |-> <<>>]

\* generate_preview: cache the preview under a fresh batch id
generate_preview(b, items) ==
    /\ b \notin DOMAIN renameCache
    /\ b \notin DOMAIN renameStatus
    /\ renameCache' = DictSet(renameCache, b, items)
    /\ renameStatus' = DictSet(renameStatus, b, RenameStatusRec(Len(items)))
    /\ UNCHANGED <<refused, resolved, volume, fs, log, moveCache, moveStatus, moveObjs, moveJobs, renameJobs,
                   undoOnes, undoProgress, undoObjs, undoJobs, fsMoves,
                   executes, undos, disturbances>>

RenameJob(b, items) ==
    [pc |-> "queued", batch |-> b, items |-> items, rows |-> <<>>, i |-> 0,
     actual |-> NoPath, opst |-> "completed"]

\* POST /rename/execute: the status code of the response
execute_rename_response(b, items) ==
    IF items = <<>> THEN 400
    ELSE IF b \notin DOMAIN renameCache THEN 404
    ELSE 200

\* POST /rename/execute: a request answered with an error starts no job
execute_rename(b, items, limit) ==
    /\ executes < limit
    /\ executes' = executes + 1
    /\ IF execute_rename_response(b, items) = 200
       THEN /\ renameJobs' = Append(renameJobs, RenameJob(b, items))
            /\ UNCHANGED refused
       ELSE /\ refused' = Append(refused,
                               Refused("rename", b, execute_rename_response(b, items)))
            /\ UNCHANGED renameJobs
    /\ UNCHANGED <<resolved, volume, fs, log, moveCache, moveStatus, moveObjs, moveJobs, renameCache,
                   renameStatus, undoOnes, undoProgress, undoObjs, undoJobs, fsMoves,
                   undos, disturbances>>

RECURSIVE SortedSeq(_)
SortedSeq(S) ==
    IF S = {} THEN <<>>
    ELSE LET m == CHOOSE x \in S : \A y \in S : x <= y IN <<m>> \o SortedSeq(S \ {m})

\* {item["scan_file_id"]: item["new_filename"] for item in items}: the last one wins
rename_map(items) ==
    [id \in {items[k].scan_file_id : k \in DOMAIN items} |->
        LET last == CHOOSE k \in DOMAIN items :
                       /\ items[k].scan_file_id = id
                       /\ \A m \in DOMAIN items : items[m].scan_file_id = id => m <= k
        IN items[last].new_filename]

\* SELECT id, path FROM scan_files WHERE id IN (...), joined with the map
file_rows(map) ==
    LET ids == SortedSeq(DOMAIN map \cap DOMAIN ScanFiles) IN
    [k \in DOMAIN ids |-> [id |-> ids[k], path |-> ScanFiles[ids[k]], new_name |-> map[ids[k]]]]

\* execute_batch up to the rows of the scan_files query
renamer_execute_batch_start(j) ==
    LET job == renameJobs[j]
        b == job.batch
    IN
    /\ job.pc = "queued"
    /\ \E db \in {"ok", "connect_fails", "select_fails"} :
         /\ db # "ok" => CanFault
         /\ disturbances' = IF db = "ok" THEN disturbances ELSE disturbances + 1
         /\ renameStatus' = DictSet(renameStatus, b,
                IF db = "select_fails"
                THEN [RenameStatusRec(Len(job.items)) EXCEPT !.errors = <<"unexpected">>,
                                                             !.done = TRUE]
                ELSE RenameStatusRec(Len(job.items)))
         /\ renameJobs' = [renameJobs EXCEPT ![j] =
                [job EXCEPT !.rows = file_rows(rename_map(job.items)), !.i = 1,
                            !.pc = CASE db = "ok" -> "item"
                                     [] db = "connect_fails" -> "crashed"
                                     [] OTHER -> "close"]]
    /\ UNCHANGED <<refused, resolved, volume, fs, log, moveCache, moveStatus, moveObjs, moveJobs, renameCache,
                   undoOnes, undoProgress, undoObjs, undoJobs, fsMoves,
                   executes, undos>>

name_of(p) == <<p[2], p[3]>>

noop_run_none(f, rows, i) == 0

\* rows from i on that the loop passes with "continue": source exists and
\* source.name == new_name
RECURSIVE noop_run(_, _, _)
noop_run(f, rows, i) ==
    IF i <= Len(rows) /\ exists(f, rows[i].path) /\ name_of(rows[i].path) = <<rows[i].new_name, <<>>>>
    THEN 1 + noop_run(f, rows, i + 1)
    ELSE 0

RenameFaults == {"none", "move_perm"}

\* the inner try block for a row that is not a no-op
renamer_try_item(f, source, target, fault) ==
    IF ~exists(f, source)
    THEN [fs |-> f, actual |-> target, error |-> "missing"]
    ELSE LET res == renamer_resolve_name_conflict(f, target) IN
         IF ~res.ok
         THEN [fs |-> f, actual |-> target, error |-> "oserr"]
         ELSE IF fault # "none"
         THEN [fs |-> f, actual |-> res.path, error |-> FaultError(fault)]
         ELSE [fs |-> shutil_move(f, source, res.path), actual |-> res.path,
               error |-> "none"]

renamer_op_status(error) == IF error = "none" THEN "completed" ELSE "failed"

\* from the return of the previous await to the next one: the no-op rows,
\* then either one real row up to its INSERT, or the end of the loop
renamer_execute_batch_item(j) ==
    LET job == renameJobs[j]
        b == job.batch
        n == noop_run(fs, job.rows, job.i)
        k == job.i + n
        st == [renameStatus[b] EXCEPT !.renamed = @ + n]
    IN
    /\ job.pc = "item"
    /\ IF k > Len(job.rows)
       THEN /\ renameStatus' = [renameStatus EXCEPT ![b] = [st EXCEPT !.done = TRUE]]
            /\ renameJobs' = [renameJobs EXCEPT ![j].i = k, ![j].pc = "close"]
            /\ UNCHANGED <<fs, fsMoves, disturbances>>
       ELSE LET row == job.rows[k]
                target == <<row.path[1], row.new_name, <<>>>>
            IN
            \E fault \in RenameFaults :
              /\ fault # "none" => (CanFault /\ exists(fs, row.path))
              /\ disturbances' = IF fault = "none" THEN disturbances ELSE disturbances + 1
              /\ LET r == renamer_try_item(fs, row.path, target, fault) IN
                 /\ fs' = r.fs
                 /\ fsMoves' = IF r.error = "none"
                               THEN fsMoves \cup {<<row.path, r.actual>>}
                               ELSE fsMoves
                 /\ renameStatus' = [renameStatus EXCEPT ![b] =
                        IF r.error = "none" THEN [st EXCEPT !.renamed = @ + 1]
                        ELSE count_failure(st, r.error)]
                 /\ renameJobs' = [renameJobs EXCEPT ![j] =
                        [job EXCEPT !.i = k, !.actual = r.actual,
                                    !.opst = renamer_op_status(r.error),
                                    !.pc = "log"]]
    /\ UNCHANGED <<refused, resolved, volume, log, moveCache, moveStatus, moveObjs, moveJobs, renameCache,
                   undoOnes, undoProgress, undoObjs, undoJobs, executes, undos>>

\* the INSERT and its commit; an exception reaches the outer except clause
renamer_execute_batch_log(j) ==
    LET job == renameJobs[j]
        b == job.batch
        row == job.rows[job.i]
    IN
    /\ job.pc = "log"
    /\ \E dbok \in BOOLEAN :
         /\ ~dbok => CanFault
         /\ disturbances' = IF dbok THEN disturbances ELSE disturbances + 1
         /\ IF dbok
            THEN /\ log' = insert_row(log, LogRow(b, "RENAME", row.path, job.actual,
                                                  job.opst))
                 /\ renameJobs' = [renameJobs EXCEPT ![j].i = job.i + 1, ![j].pc = "item"]
                 /\ UNCHANGED renameStatus
            ELSE /\ renameStatus' = [renameStatus EXCEPT ![b] =
                        [@ EXCEPT !.errors = Append(@, "unexpected"), !.done = TRUE]]
                 /\ renameJobs' = [renameJobs EXCEPT ![j].pc = "close"]
                 /\ UNCHANGED log
    /\ UNCHANGED <<refused, resolved, volume, fs, moveCache, moveStatus, moveObjs, moveJobs, renameCache,
                   undoOnes, undoProgress, undoObjs, undoJobs, fsMoves,
                   executes, undos>>

\* _batch_cache.pop(batch_id, None)
renamer_execute_batch_cleanup(j) ==
    LET job == renameJobs[j] IN
    /\ job.pc = "close"
    /\ renameCache' = DictPop(renameCache, job.batch)
    /\ renameJobs' = [renameJobs EXCEPT ![j].pc = "ended"]
    /\ UNCHANGED <<refused, resolved, volume, fs, log, moveCache, moveStatus, moveObjs, moveJobs, renameStatus,
                   undoOnes, undoProgress, undoObjs, undoJobs, fsMoves,
                   executes, undos, disturbances>>

(***************************************************************************)
(* Undo of a single operation (core/undo.py, api/history.py).              *)
(***************************************************************************)
Preflight(ok, reason, code) == [ok |-> ok, reason |-> reason, code |-> code]

preflight_check_without_source_check(f, mounted, op) ==
    IF op.status # "completed" THEN Preflight(FALSE, "invalid_status", 400)
    ELSE IF ~exists(f, op.target_path) THEN Preflight(FALSE, "target_missing", 409)
    ELSE Preflight(TRUE, "", 0)

preflight_check_without_status(f, mounted, op) ==
    IF ~exists(f, op.target_path) THEN Preflight(FALSE, "target_missing", 409)
    ELSE IF exists(f, op.source_path) THEN Preflight(FALSE, "source_exists", 409)
    ELSE Preflight(TRUE, "", 0)

\* _preflight_check: the status of the row as it was read, then the filesystem
mount_root_missing(mounted, p) == OnVolume(p) /\ ~mounted

preflight_check_retrying_failed(f, mounted, op) ==
    IF op.status \notin {"completed", "revert_failed"}
    THEN Preflight(FALSE, "invalid_status", 400)
    ELSE IF ~exists(f, op.target_path) THEN Preflight(FALSE, "target_missing", 409)
    ELSE IF exists(f, op.source_path) THEN Preflight(FALSE, "source_exists", 409)
    ELSE IF mount_root_missing(mounted, op.target_path)
         THEN Preflight(FALSE, "volume_unreachable", 503)
    ELSE IF mount_root_missing(mounted, op.source_path)
         THEN Preflight(FALSE, "volume_unreachable", 503)
    ELSE Preflight(TRUE, "", 0)

preflight_check(f, mounted, op) ==
    IF op.status = "reverted" THEN Preflight(FALSE, "already_reverted", 400)
    ELSE IF op.status = "revert_failed" THEN Preflight(FALSE, "already_failed", 400)
    ELSE IF op.status # "completed" THEN Preflight(FALSE, "invalid_status", 400)
    ELSE IF ~exists(f, op.target_path) THEN Preflight(FALSE, "target_missing", 409)
    ELSE IF exists(f, op.source_path) THEN Preflight(FALSE, "source_exists", 409)
    ELSE IF mount_root_missing(mounted, op.target_path)
         THEN Preflight(FALSE, "volume_unreachable", 503)
    ELSE IF mount_root_missing(mounted, op.source_path)
         THEN Preflight(FALSE, "volume_unreachable", 503)
    ELSE Preflight(TRUE, "", 0)

NoRow == LogRow("", "", NoPath, NoPath, "")

\* a request; pc "ended" means it returned (result, code), "raised" that an
\* exception left undo_single_operation
UndoOne(operation_id, pc, op, code) ==
    [pc |-> pc, operation_id |-> operation_id, op |-> op, code |-> code]

\* POST /history/undo/{operation_id} up to the row _get_operation_by_id returns
undo_single_operation_read(operation_id, limit) ==
    /\ undos < limit
    /\ undos' = undos + 1
    /\ \E dbok \in BOOLEAN :
         /\ ~dbok => CanFault
         /\ disturbances' = IF dbok THEN disturbances ELSE disturbances + 1
         /\ undoOnes' = Append(undoOnes,
               IF ~dbok THEN UndoOne(operation_id, "raised", NoRow, 500)
               ELSE IF operation_id \notin DOMAIN log
               THEN UndoOne(operation_id, "ended", NoRow, 404)
               ELSE UndoOne(operation_id, "preflight", log[operation_id], 0))
    /\ UNCHANGED <<refused, resolved, volume, fs, log, moveCache, moveStatus, moveObjs, moveJobs, renameCache,
                   renameStatus, renameJobs, undoProgress, undoObjs, undoJobs, fsMoves,
                   executes>>

\* the pre-flight check and, when it passes, source.parent.mkdir
undo_single_operation_preflight(u) ==
    LET req == undoOnes[u]
        pf == preflight_check(fs, volume.mounted, req.op)
    IN
    /\ req.pc = "preflight"
    /\ IF ~pf.ok
       THEN /\ undoOnes' = [undoOnes EXCEPT
                   ![u].pc = IF pf.code = 409 /\ pf.reason = "target_missing"
                             THEN "mark_failed" ELSE "ended",
                   ![u].code = pf.code]
            /\ UNCHANGED disturbances
       ELSE \E mkdir_ok \in BOOLEAN :
              /\ ~mkdir_ok => CanFault
              /\ disturbances' = IF mkdir_ok THEN disturbances ELSE disturbances + 1
              /\ undoOnes' = IF mkdir_ok THEN [undoOnes EXCEPT ![u].pc = "move"]
                             ELSE [undoOnes EXCEPT ![u].pc = "raised", ![u].code = 500]
    /\ UNCHANGED <<refused, resolved, volume, fs, log, moveCache, moveStatus, moveObjs, moveJobs, renameCache,
                   renameStatus, renameJobs, undoProgress, undoObjs, undoJobs, fsMoves,
                   executes, undos>>

\* shutil.move(target, source) run in a thread
undo_single_operation_move(u) ==
    LET req == undoOnes[u] IN
    /\ req.pc = "move"
    /\ \E move_ok \in BOOLEAN :
         /\ ~move_ok => (CanFault /\ exists(fs, req.op.target_path))
         /\ disturbances' = IF move_ok THEN disturbances ELSE disturbances + 1
         /\ IF /\ move_ok
               /\ exists(fs, req.op.target_path)
               /\ ~mount_root_missing(volume.mounted, req.op.source_path)
            THEN /\ fs' = shutil_move(fs, req.op.target_path, req.op.source_path)
                 /\ undoOnes' = [undoOnes EXCEPT ![u].pc = "mark_reverted"]
            ELSE /\ undoOnes' = [undoOnes EXCEPT ![u].pc = "mark_failed", ![u].code = 500]
                 /\ UNCHANGED fs
    /\ UNCHANGED <<refused, resolved, volume, log, moveCache, moveStatus, moveObjs, moveJobs, renameCache,
                   renameStatus, renameJobs, undoProgress, undoObjs, undoJobs,
                   fsMoves, executes, undos>>

\* _update_status(db, operation_id, ...) and the return that follows it
undo_single_operation_mark(u) ==
    LET req == undoOnes[u] IN
    /\ req.pc \in {"mark_reverted", "mark_failed"}
    /\ \E dbok \in BOOLEAN :
         /\ ~dbok => CanFault
         /\ disturbances' = IF dbok THEN disturbances ELSE disturbances + 1
         /\ IF dbok
            THEN LET code == IF req.pc = "mark_reverted" THEN 200 ELSE req.code IN
                 /\ log' = update_status(log, req.op.id,
                              IF req.pc = "mark_reverted" THEN "reverted"
                              ELSE "revert_failed")
                 /\ undoOnes' = [undoOnes EXCEPT ![u].pc = "ended", ![u].code = code]
            ELSE /\ undoOnes' = [undoOnes EXCEPT ![u].pc = "raised", ![u].code = 500]
                 /\ UNCHANGED log
    /\ UNCHANGED <<refused, resolved, volume, fs, moveCache, moveStatus, moveObjs, moveJobs, renameCache,
                   renameStatus, renameJobs, undoProgress, undoObjs, undoJobs, fsMoves,
                   executes, undos>>

(***************************************************************************)
(* Undo of a batch (core/undo.py, api/history.py).                         *)
(***************************************************************************)
UndoProgressRec(total) ==
    [total |-> total, reverted |-> 0, failed |-> 0, done |-> FALSE, errors |-> <<>>]

\* the dict a poller of /history/batch/{id}/status reads
undo_progress_of(b) == undoObjs[undoProgress[b]]

CompletedIds(l, b) == {i \in DOMAIN l : l[i].batch_id = b /\ l[i].status = "completed"}

RECURSIVE SortedDesc_ascending(_)
SortedDesc_ascending(S) ==
    IF S = {} THEN <<>>
    ELSE LET m == CHOOSE x \in S : \A y \in S : x =< y
         IN <<m>> \o SortedDesc_ascending(S \ {m})

RECURSIVE SortedDesc(_)
SortedDesc(S) ==
    IF S = {} THEN <<>>
    ELSE LET m == CHOOSE x \in S : \A y \in S : x >= y IN <<m>> \o SortedDesc(S \ {m})

get_batch_operations_any_batch(l, b) ==
    LET ids == SortedDesc({i \in DOMAIN l : l[i].status = "completed"})
    IN [k \in DOMAIN ids |-> l[ids[k]]]

\* _get_batch_operations: WHERE batch_id = ? AND status = 'completed' ORDER BY id DESC
get_batch_operations(l, b) ==
    LET ids == SortedDesc(CompletedIds(l, b)) IN [k \in DOMAIN ids |-> l[ids[k]]]

UndoJob(b) ==
    [pc |-> "queued", batch |-> b, ops |-> <<>>, k |-> 0, progress |-> 0, error_msg |-> ""]

undo_batch_response_always_accepted(b) == 202

\* POST /history/undo/batch/{batch_id}: the status code of the response
undo_batch_response(b) == IF Cardinality(CompletedIds(log, b)) = 0 THEN 404 ELSE 202

\* POST /history/undo/batch/{batch_id}: a request answered 404 starts no job
\* (pc "rejected" records the answer) and touches no progress record
undo_batch(b, limit) ==
    /\ undos < limit
    /\ undos' = undos + 1
    /\ IF undo_batch_response(b) = 202
       THEN /\ undoObjs' = Append(undoObjs,
                               UndoProgressRec(Cardinality(CompletedIds(log, b))))
            /\ undoProgress' = DictSet(undoProgress, b, Len(undoObjs) + 1)
            /\ undoJobs' = Append(undoJobs, UndoJob(b))
       ELSE /\ undoJobs' = Append(undoJobs, [UndoJob(b) EXCEPT !.pc = "rejected"])
            /\ UNCHANGED <<undoProgress, undoObjs>>
    /\ UNCHANGED <<refused, resolved, volume, fs, log, moveCache, moveStatus, moveObjs, moveJobs, renameCache,
                   renameStatus, renameJobs, undoOnes, fsMoves, executes, disturbances>>

\* the outer except clause: mark whatever dict the store holds for the batch
undo_outer_except(objs, b, exc) ==
    IF b \in DOMAIN undoProgress
    THEN [objs EXCEPT ![undoProgress[b]] =
             [@ EXCEPT !.done = TRUE, !.errors = Append(@, exc)]]
    ELSE objs

\* undo_batch_operations up to the first pre-flight check
undo_batch_operations_start(j) ==
    LET job == undoJobs[j]
        b == job.batch
        ops == get_batch_operations(log, b)
        ref == Len(undoObjs) + 1
    IN
    /\ job.pc = "queued"
    /\ \E db \in {"ok", "connect_fails", "select_fails"} :
         /\ db # "ok" => CanFault
         /\ disturbances' = IF db = "ok" THEN disturbances ELSE disturbances + 1
         /\ CASE db = "connect_fails" ->
                   /\ undoJobs' = [undoJobs EXCEPT ![j].pc = "crashed"]
                   /\ UNCHANGED <<undoObjs, undoProgress>>
              [] db = "select_fails" ->
                   /\ undoObjs' = undo_outer_except(undoObjs, b, "unexpected_database")
                   /\ undoJobs' = [undoJobs EXCEPT ![j].pc = "ended"]
                   /\ UNCHANGED undoProgress
              [] OTHER ->
                   /\ undoProgress' = DictSet(undoProgress, b, ref)
                   /\ IF ops = <<>>
                      THEN /\ undoObjs' = Append(undoObjs,
                                 [UndoProgressRec(0) EXCEPT !.done = TRUE,
                                                            !.errors = <<"nothing_to_undo">>])
                           /\ undoJobs' = [undoJobs EXCEPT ![j].pc = "ended",
                                                           ![j].progress = ref]
                      ELSE /\ undoObjs' = Append(undoObjs, UndoProgressRec(Len(ops)))
                           /\ undoJobs' = [undoJobs EXCEPT ![j] =
                                 [job EXCEPT !.pc = "preflight", !.ops = ops, !.k = 1,
                                             !.progress = ref]]
    /\ UNCHANGED <<refused, resolved, volume, fs, log, moveCache, moveStatus, moveObjs, moveJobs, renameCache,
                   renameStatus, renameJobs, undoOnes, fsMoves, executes, undos>>

\* after a row: the next row, or done = True after the last one
undo_next(job) ==
    [job EXCEPT !.k = @ + 1, !.pc = IF job.k = Len(job.ops) THEN "ended" ELSE "preflight"]

undo_counted_twice(objs, job, field, error) ==
    [objs EXCEPT ![job.progress] =
        [@ EXCEPT ![field] = @ + 2,
                  !.errors = IF error = "" THEN @ ELSE Append(@, error),
                  !.done = (job.k = Len(job.ops))]]

undo_counted_as_failed(objs, job, field, error) ==
    [objs EXCEPT ![job.progress] =
        [@ EXCEPT !.failed = @ + 1, !.done = (job.k = Len(job.ops))]]

undo_counted(objs, job, field, error) ==
    [objs EXCEPT ![job.progress] =
        [@ EXCEPT ![field] = @ + 1,
                  !.errors = IF error = "" THEN @ ELSE Append(@, error),
                  !.done = (job.k = Len(job.ops))]]

\* the pre-flight check of one row and, when it passes, source.parent.mkdir
undo_batch_operations_preflight(j) ==
    LET job == undoJobs[j]
        pf == preflight_check(fs, volume.mounted, job.ops[job.k])
    IN
    /\ job.pc = "preflight"
    /\ IF ~pf.ok
       THEN /\ undoJobs' = [undoJobs EXCEPT ![j].pc = "mark_failed_preflight",
                                            ![j].error_msg = pf.reason]
            /\ UNCHANGED <<undoObjs, disturbances>>
       ELSE \E mkdir_ok \in BOOLEAN :
              /\ ~mkdir_ok => CanFault
              /\ disturbances' = IF mkdir_ok THEN disturbances ELSE disturbances + 1
              /\ IF mkdir_ok
                 THEN /\ undoJobs' = [undoJobs EXCEPT ![j].pc = "move"]
                      /\ UNCHANGED undoObjs
                 ELSE /\ undoObjs' = undo_outer_except(undoObjs, job.batch,
                                                       "unexpected_mkdir")
                      /\ undoJobs' = [undoJobs EXCEPT ![j].pc = "ended"]
    /\ UNCHANGED <<refused, resolved, volume, fs, log, moveCache, moveStatus, moveObjs, moveJobs, renameCache,
                   renameStatus, renameJobs, undoOnes, undoProgress, fsMoves,
                   executes, undos>>

\* shutil.move(target, source) run in a thread
undo_batch_operations_move(j) ==
    LET job == undoJobs[j]
        op == job.ops[job.k]
    IN
    /\ job.pc = "move"
    /\ \E move_ok \in BOOLEAN :
         /\ ~move_ok => (CanFault /\ exists(fs, op.target_path))
         /\ disturbances' = IF move_ok THEN disturbances ELSE disturbances + 1
         /\ IF /\ move_ok
               /\ exists(fs, op.target_path)
               /\ ~mount_root_missing(volume.mounted, op.source_path)
            THEN /\ fs' = shutil_move(fs, op.target_path, op.source_path)
                 /\ undoJobs' = [undoJobs EXCEPT ![j].pc = "mark_reverted"]
            ELSE /\ undoJobs' = [undoJobs EXCEPT ![j].pc = "mark_failed_move"]
                 /\ UNCHANGED fs
    /\ UNCHANGED <<refused, resolved, volume, log, moveCache, moveStatus, moveObjs, moveJobs, renameCache,
                   renameStatus, renameJobs, undoOnes, undoProgress, undoObjs,
                   fsMoves, executes, undos>>

\* _update_status(db, op["id"], "reverted") and the counter after it
undo_batch_operations_mark_reverted(j) ==
    LET job == undoJobs[j]
        op == job.ops[job.k]
    IN
    /\ job.pc = "mark_reverted"
    /\ \E dbok \in BOOLEAN :
         /\ ~dbok => CanFault
         /\ disturbances' = IF dbok THEN disturbances ELSE disturbances + 1
         /\ IF dbok
            THEN /\ log' = update_status(log, op.id, "reverted")
                 /\ undoObjs' = undo_counted(undoObjs, job, "reverted", "")
                 /\ undoJobs' = [undoJobs EXCEPT ![j] = undo_next(job)]
            ELSE /\ undoJobs' = [undoJobs EXCEPT ![j].pc = "mark_failed_move"]
                 /\ UNCHANGED <<log, undoObjs>>
    /\ UNCHANGED <<refused, resolved, volume, fs, moveCache, moveStatus, moveObjs, moveJobs, renameCache,
                   renameStatus, renameJobs, undoOnes, undoProgress, fsMoves,
                   executes, undos>>

\* _update_status(db, op["id"], "revert_failed") and the counter after it
undo_batch_operations_mark_failed(j) ==
    LET job == undoJobs[j]
        op == job.ops[job.k]
    IN
    /\ job.pc \in {"mark_failed_preflight", "mark_failed_move"}
    /\ \E dbok \in BOOLEAN :
         /\ ~dbok => (CanFault /\ (job.pc = "mark_failed_move" \/ op.status = "completed"))
         /\ disturbances' = IF dbok THEN disturbances ELSE disturbances + 1
         /\ IF dbok
            THEN /\ log' = IF job.pc = "mark_failed_move" \/ op.status = "completed"
                           THEN update_status(log, op.id, "revert_failed")
                           ELSE log
                 /\ undoObjs' = undo_counted(undoObjs, job, "failed",
                                    IF job.pc = "mark_failed_move" THEN "move_failed"
                                    ELSE job.error_msg)
                 /\ undoJobs' = [undoJobs EXCEPT ![j] = undo_next(job)]
            ELSE /\ undoObjs' = undo_outer_except(undoObjs, job.batch,
                                                  "unexpected_database")
                 /\ undoJobs' = [undoJobs EXCEPT ![j].pc = "ended"]
                 /\ UNCHANGED log
    /\ UNCHANGED <<refused, resolved, volume, fs, moveCache, moveStatus, moveObjs, moveJobs, renameCache,
                   renameStatus, renameJobs, undoOnes, undoProgress, fsMoves,
                   executes, undos>>

(***************************************************************************)
(* The conflict resolvers called on their own, on any filesystem made of   *)
(* a target and candidates of both naming policies.                        *)
(***************************************************************************)
NoCall ==
    [kind |-> "none", target |-> NoPath,
     result |-> [ok |-> TRUE, path |-> NoPath, examined |-> 0]]

ResolveTargets == {P("out", "x"), P("out", "y")}

ResolvePaths ==
    {P("out", "x"), P("out", "y"), <<"out", "x", <<1>>>>, <<"out", "x", <<2>>>>,
     <<"out", "x", <<0, 1>>>>, <<"out", "x", <<0, 2>>>>}

\* the target x with every candidate of both policies taken
CrowdedPaths ==
    {P("out", "x")} \cup {mover_candidate(P("out", "x"), N) : N \in 1..ConflictLimit}
                   \cup {renamer_candidate(P("out", "x"), N) : N \in 1..ConflictLimit}

ResolveFilesystems ==
    {[p \in S |-> "g"] : S \in SUBSET ResolvePaths} \cup {[p \in CrowdedPaths |-> "g"]}

\* mover._resolve_name_conflict(target)
mover_resolve(target) ==
    /\ resolved' = [kind |-> "move", target |-> target,
                    result |-> mover_resolve_name_conflict(fs, target)]
    /\ UNCHANGED <<refused, volume, fs, log, moveCache, moveStatus, moveObjs, moveJobs,
                   renameCache, renameStatus, renameJobs, undoOnes, undoProgress, undoObjs,
                   undoJobs, fsMoves, executes, undos, disturbances>>

\* renamer._resolve_name_conflict(target)
renamer_resolve(target) ==
    /\ resolved' = [kind |-> "rename", target |-> target,
                    result |-> renamer_resolve_name_conflict(fs, target)]
    /\ UNCHANGED <<refused, volume, fs, log, moveCache, moveStatus, moveObjs, moveJobs,
                   renameCache, renameStatus, renameJobs, undoOnes, undoProgress, undoObjs,
                   undoJobs, fsMoves, executes, undos, disturbances>>

(***************************************************************************)
(* Other programs change the filesystem between any two steps.             *)
(***************************************************************************)
env_create(p) ==
    /\ CanFault
    /\ ~exists(fs, p)
    /\ fs' = Put(fs, p, "g")
    /\ disturbances' = disturbances + 1
    /\ UNCHANGED <<refused, resolved, volume, log, moveCache, moveStatus, moveObjs, moveJobs, renameCache,
                   renameStatus, renameJobs, undoOnes, undoProgress, undoObjs, undoJobs,
                   fsMoves, executes, undos>>

env_delete(p) ==
    /\ CanFault
    /\ exists(fs, p)
    /\ fs' = Remove(fs, p)
    /\ disturbances' = disturbances + 1
    /\ UNCHANGED <<refused, resolved, volume, log, moveCache, moveStatus, moveObjs, moveJobs, renameCache,
                   renameStatus, renameJobs, undoOnes, undoProgress, undoObjs, undoJobs,
                   fsMoves, executes, undos>>

\* the volume is unmounted: its mount root and its files are gone
env_unmount ==
    /\ CanFault
    /\ volume.mounted
    /\ volume' = [mounted |-> FALSE,
                  files |-> [p \in {q \in DOMAIN fs : OnVolume(q)} |-> fs[p]]]
    /\ fs' = [p \in {q \in DOMAIN fs : ~OnVolume(q)} |-> fs[p]]
    /\ disturbances' = disturbances + 1
    /\ UNCHANGED <<refused, resolved, log, moveCache, moveStatus, moveObjs, moveJobs, renameCache,
                   renameStatus, renameJobs, undoOnes, undoProgress, undoObjs, undoJobs,
                   fsMoves, executes, undos>>

\* the volume is mounted again
env_mount ==
    /\ ~volume.mounted
    /\ volume' = [mounted |-> TRUE, files |-> EmptyDict]
    /\ fs' = [p \in DOMAIN fs \cup DOMAIN volume.files |->
                 IF p \in DOMAIN volume.files THEN volume.files[p] ELSE fs[p]]
    /\ UNCHANGED <<refused, resolved, disturbances, log, moveCache, moveStatus, moveObjs, moveJobs, renameCache,
                   renameStatus, renameJobs, undoOnes, undoProgress, undoObjs, undoJobs,
                   fsMoves, executes, undos>>

(***************************************************************************)
(* The system.                                                             *)
(***************************************************************************)
Init ==
    /\ fs = InitFs
    /\ volume = [mounted |-> TRUE, files |-> EmptyDict]
    /\ log = <<>>
    /\ moveCache = EmptyDict
    /\ moveStatus = EmptyDict
    /\ moveObjs = <<>>
    /\ moveJobs = <<>>
    /\ renameCache = EmptyDict
    /\ renameStatus = EmptyDict
    /\ renameJobs = <<>>
    /\ undoOnes = <<>>
    /\ undoProgress = EmptyDict
    /\ undoObjs = <<>>
    /\ undoJobs = <<>>
    /\ fsMoves = {}
    /\ executes = 0
    /\ undos = 0
    /\ disturbances = 0
    /\ resolved = NoCall
    /\ refused = <<>>

\* the steps of the background jobs and of the requests in flight
JobStep ==
    \/ \E j \in DOMAIN moveJobs : mover_execute_batch_start(j)
    \/ \E j \in DOMAIN moveJobs : mover_execute_batch_item(j)
    \/ \E j \in DOMAIN moveJobs : mover_execute_batch_log(j)
    \/ \E j \in DOMAIN moveJobs : mover_execute_batch_finish(j)
    \/ \E j \in DOMAIN moveJobs : mover_execute_batch_cleanup(j)
    \/ \E j \in DOMAIN renameJobs : renamer_execute_batch_start(j)
    \/ \E j \in DOMAIN renameJobs : renamer_execute_batch_item(j)
    \/ \E j \in DOMAIN renameJobs : renamer_execute_batch_log(j)
    \/ \E j \in DOMAIN renameJobs : renamer_execute_batch_cleanup(j)

UndoStep ==
    \/ \E u \in DOMAIN undoOnes : undo_single_operation_preflight(u)
    \/ \E u \in DOMAIN undoOnes : undo_single_operation_move(u)
    \/ \E u \in DOMAIN undoOnes : undo_single_operation_mark(u)
    \/ \E j \in DOMAIN undoJobs : undo_batch_operations_start(j)
    \/ \E j \in DOMAIN undoJobs : undo_batch_operations_preflight(j)
    \/ \E j \in DOMAIN undoJobs : undo_batch_operations_move(j)
    \/ \E j \in DOMAIN undoJobs : undo_batch_operations_mark_reverted(j)
    \/ \E j \in DOMAIN undoJobs : undo_batch_operations_mark_failed(j)

\* _cleanup_stale_progress: the entries that are done and whose _finished_at lies
\* more than _PROGRESS_TTL_SECONDS back are deleted (every path of the undo job
\* that sets done sets _finished_at with it)
cleanup_stale_progress(progress, stale) ==
    [k \in (DOMAIN progress) \ stale |-> progress[k]]

\* GET /history/batch/{id}/status: get_undo_progress() runs the scavenging pass
\* before the record is read; which finished entries are older than the time to
\* live is the clock's choice
get_undo_status(b) ==
    /\ \E stale \in SUBSET {k \in DOMAIN undoProgress : undoObjs[undoProgress[k]].done} :
          undoProgress' = cleanup_stale_progress(undoProgress, stale)
    /\ UNCHANGED <<refused, resolved, volume, fs, log, moveCache, moveStatus, moveObjs,
                   moveJobs, renameCache, renameStatus, renameJobs, undoOnes, undoObjs,
                   undoJobs, fsMoves, executes, undos, disturbances>>

\* GET /move/batch/{id}/status: get_batch_status_store() returns the store as it
\* is and the route only reads the record
move_get_batch_status(b) ==
    /\ b \in DOMAIN moveStatus
    /\ UNCHANGED vars

\* GET /rename/batch/{id}/status: the same, for the rename store
rename_get_batch_status(b) ==
    /\ b \in DOMAIN renameStatus
    /\ UNCHANGED vars

\* the status polls of the three stores
Poll ==
    \/ \E b \in MoveBatchIds : move_get_batch_status(b)
    \/ \E b \in RenameBatchIds : rename_get_batch_status(b)
    \/ \E b \in MoveBatchIds \cup RenameBatchIds : get_undo_status(b)

Preview ==
    \/ \E b \in MoveBatchIds, items \in StagedChoices : match_files_to_rules(b, items)
    \/ \E b \in RenameBatchIds, items \in RenamePreviews : generate_preview(b, items)

Env ==
    \/ \E p \in EnvPaths : env_create(p)
    \/ \E p \in EnvPaths : env_delete(p)
    \/ env_unmount
    \/ env_mount

\* GET /history/batches: the batches a client can ask to undo (GROUP BY batch_id)
ListedBatches == {log[i].batch_id : i \in DOMAIN log}

\* GET /history/batches: the status of one batch summary
batch_summary_status(l, b) ==
    LET rows == {i \in DOMAIN l : l[i].batch_id = b}
        total == Cardinality(rows)
        reverted == Cardinality({i \in rows : l[i].status = "reverted"})
        failed == Cardinality({i \in rows : l[i].status \in {"revert_failed", "failed"}})
    IN
    IF reverted = total THEN "reverted"
    ELSE IF reverted > 0 \/ failed > 0 THEN "partially_reverted"
    ELSE "completed"

\* no executor job is queued or running
ExecutorsIdle ==
    /\ \A j \in DOMAIN moveJobs : moveJobs[j].pc \in {"ended", "crashed"}
    /\ \A j \in DOMAIN renameJobs : renameJobs[j].pc \in {"ended", "crashed"}

\* no undo request or undo job is queued or running
UndosIdle ==
    /\ \A u \in DOMAIN undoOnes : undoOnes[u].pc \in {"ended", "raised"}
    /\ \A j \in DOMAIN undoJobs : undoJobs[j].pc \in {"ended", "crashed", "rejected"}

\* the whole system, used by clients that wait for the answer to a request (for
\* a job: until its status says done) before they send the next one of its kind,
\* and that send execute requests the server accepts
Next ==
    \/ Preview
    \/ /\ ExecutorsIdle
       /\ \E b \in MoveBatchIds, sel \in MoveSelections :
             /\ execute_move_response(b, sel) = 200
             /\ execute_move(b, sel, MaxExecutes)
    \/ /\ ExecutorsIdle
       /\ \E b \in RenameBatchIds, items \in RenameSubmissions :
             /\ execute_rename_response(b, items) = 200
             /\ execute_rename(b, items, MaxExecutes)
    \/ JobStep
    \/ /\ UndosIdle
       /\ \E id \in 1..(Len(log) + 1) : undo_single_operation_read(id, MaxUndos)
    \/ /\ UndosIdle
       /\ \E b \in ListedBatches : undo_batch(b, MaxUndos)
    \/ UndoStep
    \/ Env

Spec == Init /\ [][Next]_vars

\* the executors alone, with execute requests that overlap
NextExec ==
    \/ Preview
    \/ \E b \in MoveBatchIds, sel \in MoveSelections : execute_move(b, sel, ExecJobs)
    \/ \E b \in RenameBatchIds, items \in RenameSubmissions :
          execute_rename(b, items, ExecJobs)
    \/ JobStep
    \/ Env

SpecExec == Init /\ [][NextExec]_vars

\* the whole system, with undo requests that overlap
NextUndo ==
    \/ Preview
    \/ \E b \in MoveBatchIds, sel \in MoveSelections :
          /\ execute_move_response(b, sel) = 200
          /\ execute_move(b, sel, MaxExecutes)
    \/ \E b \in RenameBatchIds, items \in RenameSubmissions :
          /\ execute_rename_response(b, items) = 200
          /\ execute_rename(b, items, MaxExecutes)
    \/ JobStep
    \/ \E id \in 1..(Len(log) + 1) : undo_single_operation_read(id, UndoRequests)
    \/ \E b \in ListedBatches : undo_batch(b, UndoRequests)
    \/ UndoStep
    \/ Env

SpecUndo == Init /\ [][NextUndo]_vars

\* the whole system, used by one client that sends a request only after the
\* one before it has been answered and its job, if any, says done
NextSerial ==
    \/ Preview
    \/ /\ ExecutorsIdle /\ UndosIdle
       /\ \E b \in MoveBatchIds, sel \in MoveSelections :
             /\ execute_move_response(b, sel) = 200
             /\ execute_move(b, sel, MaxExecutes)
    \/ /\ ExecutorsIdle /\ UndosIdle
       /\ \E b \in RenameBatchIds, items \in RenameSubmissions :
             /\ execute_rename_response(b, items) = 200
             /\ execute_rename(b, items, MaxExecutes)
    \/ JobStep
    \/ /\ ExecutorsIdle /\ UndosIdle
       /\ \E id \in 1..(Len(log) + 1) : undo_single_operation_read(id, SerialUndos)
    \/ /\ ExecutorsIdle /\ UndosIdle
       /\ \E b \in ListedBatches : undo_batch(b, SerialUndos)
    \/ UndoStep
    \/ Env

SpecSerial == Init /\ [][NextSerial]_vars

\* one client that executes a move batch and a rename batch, one after the
\* other, and then asks to undo one batch of the history
NextIsolate ==
    \/ Preview
    \/ /\ ExecutorsIdle /\ UndosIdle
       /\ \E b \in MoveBatchIds, sel \in MoveSelections :
             /\ execute_move_response(b, sel) = 200
             /\ execute_move(b, sel, ExecJobs)
    \/ /\ ExecutorsIdle /\ UndosIdle
       /\ \E b \in RenameBatchIds, items \in RenameSubmissions :
             /\ execute_rename_response(b, items) = 200
             /\ execute_rename(b, items, ExecJobs)
    \/ JobStep
    \/ /\ ExecutorsIdle /\ UndosIdle
       /\ \E b \in ListedBatches : undo_batch(b, MaxUndos)
    \/ \E j \in DOMAIN undoJobs : undo_batch_operations_start(j)
    \/ \E j \in DOMAIN undoJobs : undo_batch_operations_preflight(j)
    \/ \E j \in DOMAIN undoJobs : undo_batch_operations_move(j)
    \/ \E j \in DOMAIN undoJobs : undo_batch_operations_mark_reverted(j)
    \/ \E j \in DOMAIN undoJobs : undo_batch_operations_mark_failed(j)
    \/ Env

SpecIsolate == Init /\ [][NextIsolate]_vars

\* the previews and executors alone, used by a client that sends an execute
\* request only when no executor job is queued or running
NextInput ==
    \/ Preview
    \/ /\ ExecutorsIdle
       /\ \E b \in MoveBatchIds, sel \in MoveSelections : execute_move(b, sel, InputRequests)
    \/ /\ ExecutorsIdle
       /\ \E b \in RenameBatchIds, items \in RenameSubmissions :
             execute_rename(b, items, InputRequests)
    \/ JobStep
    \/ Env

SpecInput == Init /\ [][NextInput]_vars

\* the serial client, with status polls that keep occurring: the event loop runs
\* every job that can take a step, and a poll of the undo store that finds a stale
\* entry is eventually made
NextPoll ==
    \/ NextSerial
    \/ Poll

SpecPoll ==
    /\ Init /\ [][NextPoll]_vars
    /\ WF_vars(JobStep) /\ WF_vars(UndoStep)
    /\ WF_vars(\E b \in MoveBatchIds \cup RenameBatchIds : get_undo_status(b))

\* a preview that stages one of the two scan files only
PartialPreviews == { << RenameItem(1, "y") >> }

\* the previews and executors alone, as in NextInput, with previews that stage
\* a part of the scan files
NextConfirm ==
    \/ NextInput
    \/ \E b \in RenameBatchIds, items \in PartialPreviews : generate_preview(b, items)

SpecConfirm == Init /\ [][NextConfirm]_vars

\* where each file of the round trips is before the batch is executed
RoundHome ==
    (P("a", "x") :> "f1") @@ (P("b", "x") :> "f2") @@ (P("out", "x") :> "g")
       @@ (mover_candidate(P("out", "x"), 1) :> "h")

\* the filesystems a batch is staged and executed on
RoundFilesystems == {[p \in S |-> RoundHome[p]] : S \in SUBSET DOMAIN RoundHome}

\* the previews of the round trips: two items with one target, and an item
\* whose target is the other item's source, in either order
RoundChoices ==
    StagedChoices \cup
    { << MoveItem(0, P("a", "x"), P("b", "x")), MoveItem(1, P("b", "x"), P("out", "x")) >>,
      << MoveItem(0, P("b", "x"), P("out", "x")), MoveItem(1, P("a", "x"), P("b", "x")) >> }

InitRound ==
    /\ fs \in RoundFilesystems
    /\ volume = [mounted |-> TRUE, files |-> EmptyDict]
    /\ log = <<>>
    /\ moveCache = EmptyDict
    /\ moveStatus = EmptyDict
    /\ moveObjs = <<>>
    /\ moveJobs = <<>>
    /\ renameCache = EmptyDict
    /\ renameStatus = EmptyDict
    /\ renameJobs = <<>>
    /\ undoOnes = <<>>
    /\ undoProgress = EmptyDict
    /\ undoObjs = <<>>
    /\ undoJobs = <<>>
    /\ fsMoves = {}
    /\ executes = 0
    /\ undos = 0
    /\ disturbances = 0
    /\ resolved = NoCall
    /\ refused = <<>>

\* a move batch and its undo, used by one client that sends a request only
\* after the job of the one before it has ended; no other program acts
NextRound ==
    \/ \E b \in MoveBatchIds, items \in RoundChoices : match_files_to_rules(b, items)
    \/ /\ ExecutorsIdle /\ UndosIdle
       /\ \E b \in MoveBatchIds, sel \in MoveSelections :
             /\ execute_move_response(b, sel) = 200
             /\ execute_move(b, sel, MaxExecutes)
    \/ \E j \in DOMAIN moveJobs : mover_execute_batch_start(j)
    \/ \E j \in DOMAIN moveJobs : mover_execute_batch_item(j)
    \/ \E j \in DOMAIN moveJobs : mover_execute_batch_log(j)
    \/ \E j \in DOMAIN moveJobs : mover_execute_batch_finish(j)
    \/ \E j \in DOMAIN moveJobs : mover_execute_batch_cleanup(j)
    \/ /\ ExecutorsIdle /\ UndosIdle
       /\ \E b \in ListedBatches : undo_batch(b, MaxUndos)
    \/ \E j \in DOMAIN undoJobs : undo_batch_operations_start(j)
    \/ \E j \in DOMAIN undoJobs : undo_batch_operations_preflight(j)
    \/ \E j \in DOMAIN undoJobs : undo_batch_operations_move(j)
    \/ \E j \in DOMAIN undoJobs : undo_batch_operations_mark_reverted(j)
    \/ \E j \in DOMAIN undoJobs : undo_batch_operations_mark_failed(j)

SpecRound == InitRound /\ [][NextRound]_vars

\* the conflict resolvers alone
InitResolve ==
    /\ fs \in ResolveFilesystems
    /\ volume = [mounted |-> TRUE, files |-> EmptyDict]
    /\ log = <<>>
    /\ moveCache = EmptyDict
    /\ moveStatus = EmptyDict
    /\ moveObjs = <<>>
    /\ moveJobs = <<>>
    /\ renameCache = EmptyDict
    /\ renameStatus = EmptyDict
    /\ renameJobs = <<>>
    /\ undoOnes = <<>>
    /\ undoProgress = EmptyDict
    /\ undoObjs = <<>>
    /\ undoJobs = <<>>
    /\ fsMoves = {}
    /\ executes = 0
    /\ undos = 0
    /\ disturbances = 0
    /\ resolved = NoCall
    /\ refused = <<>>

NextResolve ==
    \/ \E target \in ResolveTargets : mover_resolve(target)
    \/ \E target \in ResolveTargets : renamer_resolve(target)

SpecResolve == InitResolve /\ [][NextResolve]_vars

(***************************************************************************)
(* Properties.                                                             *)
(***************************************************************************)
Range(seq) == {seq[k] : k \in DOMAIN seq}

Started(jobs, b) == \E j \in DOMAIN jobs : jobs[j].batch = b /\ jobs[j].pc # "queued"

CompletedRows(b) == {i \in DOMAIN log : log[i].batch_id = b /\ log[i].status = "completed"}

\* C1: once a job for batch b has started, no later execute request for b
\* is accepted: no step adds another job for b to the background tasks.
C1_AtMostOnceExecute ==
    [][\A b \in MoveBatchIds :
          Started(moveJobs, b) =>
             \/ Len(moveJobs') = Len(moveJobs)
             \/ moveJobs'[Len(moveJobs')].batch # b]_vars

\* C2: the status of a row only changes completed -> reverted,
\* completed -> revert_failed or revert_failed -> reverted; in particular a
\* reverted row keeps its status.
C2_StatusTransitions ==
    [][\A i \in DOMAIN log :
          log'[i].status # log[i].status =>
             <<log[i].status, log'[i].status>> \in
                {<<"completed", "reverted">>, <<"completed", "revert_failed">>,
                 <<"revert_failed", "reverted">>}]_vars

\* the step in which job j of jobs made the move its next row will record
MovedNow(jobs, j) ==
    /\ jobs[j].pc = "item"
    /\ jobs'[j].pc = "log"
    /\ jobs'[j].opst = "completed"

\* C3: a row that an executor inserted as completed records a move that the
\* filesystem carried out, and in the step that makes the move for a row to be
\* logged as completed the file is at the actual target and no longer at the
\* source.  (Rows inserted as failed keep that status for ever.)
C3_CompletedMeansMoved ==
    /\ [](\A i \in DOMAIN log :
             log[i].status # "failed" =>
                <<log[i].source_path, log[i].target_path>> \in fsMoves)
    /\ [][/\ \A j \in DOMAIN moveJobs :
                MovedNow(moveJobs, j) =>
                   /\ exists(fs', moveJobs'[j].actual)
                   /\ ~exists(fs', moveJobs[j].items[moveJobs[j].i].source_path)
          /\ \A j \in DOMAIN renameJobs :
                MovedNow(renameJobs, j) =>
                   /\ exists(fs', renameJobs'[j].actual)
                   /\ ~exists(fs', renameJobs'[j].rows[renameJobs'[j].i].path)]_vars

\* C3 witness: the log holds a completed row whose file is at its target, and
\* a row of an attempt that failed
C3_Witness ==
    /\ \E i \in DOMAIN log :
          /\ log[i].status = "completed"
          /\ exists(fs, log[i].target_path)
          /\ ~exists(fs, log[i].source_path)
    /\ \E i \in DOMAIN log : log[i].status = "failed"

\* C4: when the move job has set done, the completed rows of the batch are
\* as many as the moved counter says.
C4_MovedEqualsCompletedRows ==
    \A b \in DOMAIN moveStatus :
       move_status_of(b).done =>
          Cardinality(CompletedRows(b)) = move_status_of(b).moved

\* C5: the log holds rows only for moves that happened: an item that failed
\* without a filesystem change has no row.
C5_NoRowForFailedItem ==
    \A i \in DOMAIN log : <<log[i].source_path, log[i].target_path>> \in fsMoves

\* C6: the status of every row is completed, reverted or revert_failed.
C6_StatusDomain ==
    \A i \in DOMAIN log : log[i].status \in {"completed", "reverted", "revert_failed"}

\* C7: the log is append-only: no step removes a row or changes anything
\* but the status of an existing row; rows are added one at a time and never
\* by a step of an undo, and a status changes only in a step of an undo.
C7_AppendOnly ==
    [][/\ Len(log') >= Len(log)
       /\ \A i \in DOMAIN log : [log'[i] EXCEPT !.status = log[i].status] = log[i]
       /\ Len(log') > Len(log) =>
             /\ Len(log') = Len(log) + 1
             /\ undoOnes' = undoOnes
             /\ undoJobs' = undoJobs
       /\ (\E i \in DOMAIN log : log'[i].status # log[i].status) =>
             /\ Len(log') = Len(log)
             /\ moveJobs' = moveJobs
             /\ renameJobs' = renameJobs]_vars

\* C7 witness: an undo has changed the status of a row of a log with
\* several rows
C7_Witness ==
    /\ Len(log) >= 2
    /\ \E i \in DOMAIN log : log[i].status \in {"reverted", "revert_failed"}
    /\ \E u \in DOMAIN undoOnes : undoOnes[u].pc = "ended"

\* C8: a move job that ends its loop (no database error cut it short) has
\* attempted every selected item: done implies moved + failed = total.
C8_PartialFailureTolerance ==
    \A b \in DOMAIN moveStatus :
       LET st == move_status_of(b) IN
       (st.done /\ "unexpected" \notin Range(st.errors)) =>
          st.moved + st.failed = st.total

\* C9: a rename job that ends its loop (no database error cut it short)
\* has renamed + failed = total, the number of confirmed items.
C9_RenameCountsAddUp ==
    \A b \in DOMAIN renameStatus :
       LET st == renameStatus[b] IN
       (st.done /\ "unexpected" \notin Range(st.errors)) =>
          st.renamed + st.failed = st.total

\* C10: a background job that has stopped running, however it stopped, has
\* set done on its progress record.
C10_StoppedJobsAreDone ==
    /\ \A j \in DOMAIN moveJobs :
          moveJobs[j].pc \in {"ended", "crashed"} => moveObjs[moveJobs[j].status].done
    /\ \A j \in DOMAIN renameJobs :
          renameJobs[j].pc \in {"ended", "crashed"} => renameStatus[renameJobs[j].batch].done
    /\ \A j \in DOMAIN undoJobs :
          undoJobs[j].pc \in {"ended", "crashed"} => undo_progress_of(undoJobs[j].batch).done

\* the ids of the rows an undo job loaded, in the order it attempts them
AttemptOrder(job) == [k \in DOMAIN job.ops |-> job.ops[k].id]

\* C11: an undo job attempts the completed rows of its batch in strictly
\* descending id order, one at a time: the rows it loads are the completed
\* rows of the batch, newest first, and it goes from a row to the next one only.
C11_LifoOrder ==
    /\ [](\A j \in DOMAIN undoJobs :
             \A k1, k2 \in DOMAIN undoJobs[j].ops :
                k1 < k2 => AttemptOrder(undoJobs[j])[k1] > AttemptOrder(undoJobs[j])[k2])
    /\ [][\A j \in DOMAIN undoJobs :
             /\ (undoJobs[j].pc = "queued" /\ undoJobs'[j].pc = "preflight") =>
                   /\ Range(AttemptOrder(undoJobs'[j])) = CompletedIds(log, undoJobs[j].batch)
                   /\ undoJobs'[j].k = 1
             /\ undoJobs[j].pc # "queued" =>
                   /\ undoJobs'[j].ops = undoJobs[j].ops
                   /\ undoJobs'[j].k \in {undoJobs[j].k, undoJobs[j].k + 1}]_vars

\* C11 witness: a job that loaded two rows has attempted the newer one and
\* is at the older one
C11_Witness ==
    \E j \in DOMAIN undoJobs :
       /\ Len(undoJobs[j].ops) = 2
       /\ undoJobs[j].k = 2
       /\ undoJobs[j].pc = "move"
       /\ log[undoJobs[j].ops[1].id].status = "reverted"
       /\ undoJobs[j].ops[1].id > undoJobs[j].ops[2].id

\* C12: an undo of a row that is already reverted is answered with 400 in
\* its first step, which changes neither the filesystem nor the log, and the
\* row is still reverted afterwards.
C12_IdempotentUndo ==
    /\ [](\A u \in DOMAIN undoOnes :
             undoOnes[u].op.status = "reverted" =>
                /\ undoOnes[u].pc \in {"preflight", "ended"}
                /\ undoOnes[u].pc = "ended" =>
                      /\ undoOnes[u].code = 400
                      /\ log[undoOnes[u].operation_id].status = "reverted")
    /\ [][\A u \in DOMAIN undoOnes :
             (undoOnes[u].op.status = "reverted" /\ undoOnes'[u] # undoOnes[u]) =>
                /\ undoOnes'[u].pc = "ended"
                /\ undoOnes'[u].code = 400
                /\ fs' = fs
                /\ log' = log]_vars

\* C12 witness: a request for a row it found reverted has been answered
C12_Witness ==
    \E u \in DOMAIN undoOnes :
       /\ undoOnes[u].op.status = "reverted"
       /\ undoOnes[u].pc = "ended"
       /\ undoOnes[u].code = 400
       /\ exists(fs, undoOnes[u].op.source_path)

\* request u takes a step
Acts(u) == undoOnes'[u] # undoOnes[u]

\* C13: when the pre-flight check of an undo of a completed row finds no file
\* at the target, the request goes on to mark the row with 409 as its answer
\* and changes no file; when the mark is written the row is revert_failed,
\* the answer is 409 and no file has changed.
C13_TargetMissing ==
    [][\A u \in DOMAIN undoOnes :
          LET req == undoOnes[u] IN
          /\ (/\ Acts(u)
              /\ req.pc = "preflight"
              /\ req.op.status = "completed"
              /\ ~exists(fs, req.op.target_path)) =>
                 /\ undoOnes'[u].pc = "mark_failed"
                 /\ undoOnes'[u].code = 409
                 /\ fs' = fs
                 /\ log' = log
          /\ (Acts(u) /\ req.pc = "mark_failed" /\ req.code = 409) =>
                 /\ fs' = fs
                 /\ undoOnes'[u].pc = "ended" =>
                       /\ undoOnes'[u].code = 409
                       /\ log'[req.operation_id].status = "revert_failed"
                       /\ \A i \in DOMAIN log : i # req.operation_id => log'[i] = log[i]]_vars

\* C13 witness: the request was answered with 409 because the file was not
\* at the target, and the row is revert_failed
C13_Witness ==
    \E u \in DOMAIN undoOnes :
       /\ undoOnes[u].pc = "ended"
       /\ undoOnes[u].code = 409
       /\ undoOnes[u].op.status = "completed"
       /\ ~exists(fs, undoOnes[u].op.target_path)
       /\ ~exists(fs, undoOnes[u].op.source_path)
       /\ log[undoOnes[u].operation_id].status = "revert_failed"

\* C14: when the pre-flight check of an undo of a completed row finds the
\* file at the target and another file at the source, the request is answered
\* with 409 in that step, which changes neither a file nor the log; the row is
\* still completed, so that the check passes once the source is free again.
C14_SourceOccupied ==
    [][\A u \in DOMAIN undoOnes :
          LET req == undoOnes[u] IN
          (/\ Acts(u)
           /\ req.pc = "preflight"
           /\ req.op.status = "completed"
           /\ exists(fs, req.op.target_path)
           /\ exists(fs, req.op.source_path)) =>
              /\ undoOnes'[u].pc = "ended"
              /\ undoOnes'[u].code = 409
              /\ fs' = fs
              /\ log' = log
              /\ log'[req.operation_id].status = "completed"
              /\ preflight_check(Remove(fs', req.op.source_path), volume'.mounted,
                                 log'[req.operation_id]).ok]_vars

\* C14 witness: the request was answered with 409 while both files are there
\* and the row is completed
C14_Witness ==
    \E u \in DOMAIN undoOnes :
       /\ undoOnes[u].pc = "ended"
       /\ undoOnes[u].code = 409
       /\ exists(fs, undoOnes[u].op.target_path)
       /\ exists(fs, undoOnes[u].op.source_path)
       /\ fs[undoOnes[u].op.source_path] # fs[undoOnes[u].op.target_path]
       /\ log[undoOnes[u].operation_id].status = "completed"

\* C15: when the pre-flight check of an undo of a completed row runs while
\* the volume of the row's target or source is not mounted, the request is
\* answered with 503 in that step and the log does not change.
C15_VolumeUnmounted ==
    [][\A u \in DOMAIN undoOnes :
          LET req == undoOnes[u] IN
          (/\ Acts(u)
           /\ req.pc = "preflight"
           /\ req.op.status = "completed"
           /\ \/ mount_root_missing(volume.mounted, req.op.target_path)
              \/ mount_root_missing(volume.mounted, req.op.source_path)) =>
              /\ undoOnes'[u].pc = "ended"
              /\ undoOnes'[u].code = 503
              /\ fs' = fs
              /\ log' = log]_vars

\* undo job j takes a step
JobActs(j) == undoJobs'[j] # undoJobs[j]

\* C16: when the pre-flight check of a row failed in an undo job because the
\* source is occupied or a volume is not mounted, the job counts the row as
\* failed and leaves its status completed.
C16_TransientKeepsCompleted ==
    [][\A j \in DOMAIN undoJobs :
          LET job == undoJobs[j] IN
          (/\ JobActs(j)
           /\ job.pc = "mark_failed_preflight"
           /\ job.error_msg \in {"source_exists", "volume_unreachable"}) =>
              /\ log' = log
              /\ log'[job.ops[job.k].id].status = "completed"]_vars

\* C17: an undo job that has ended without a database error has attempted
\* every row it loaded: its record says done and reverted + failed = total.
C17_UndoBatchContinues ==
    \A j \in DOMAIN undoJobs :
       LET job == undoJobs[j] IN
       (/\ job.pc = "ended"
        /\ job.progress # 0
        /\ "unexpected_database" \notin Range(undoObjs[job.progress].errors)) =>
           /\ undoObjs[job.progress].done
           /\ undoObjs[job.progress].reverted + undoObjs[job.progress].failed
                 = undoObjs[job.progress].total

\* C18: when an undo request finds its row revert_failed while the file is at
\* the target, the source is free and no volume is missing, its pre-flight
\* check lets it through to the move (or to an error of mkdir), not to a
\* refusal.
C18_RevertFailedRetryable ==
    [][\A u \in DOMAIN undoOnes :
          LET req == undoOnes[u] IN
          (/\ Acts(u)
           /\ req.pc = "preflight"
           /\ req.op.status = "revert_failed"
           /\ exists(fs, req.op.target_path)
           /\ ~exists(fs, req.op.source_path)
           /\ ~mount_root_missing(volume.mounted, req.op.target_path)
           /\ ~mount_root_missing(volume.mounted, req.op.source_path)) =>
              undoOnes'[u].pc \in {"move", "raised"}]_vars

\* C18 as the code has it: an undo request that finds its row revert_failed is
\* answered with 400 in its first step, which changes neither the filesystem
\* nor the log; an undo of a batch never loads such a row; and a row that is
\* revert_failed stays revert_failed.
C18_RevertFailedIsFinal ==
    /\ [](\A j \in DOMAIN undoJobs : \A k \in DOMAIN undoJobs[j].ops :
             undoJobs[j].ops[k].status = "completed")
    /\ [][/\ \A u \in DOMAIN undoOnes :
                (Acts(u) /\ undoOnes[u].pc = "preflight"
                         /\ undoOnes[u].op.status = "revert_failed") =>
                   /\ undoOnes'[u].pc = "ended"
                   /\ undoOnes'[u].code = 400
                   /\ fs' = fs
                   /\ log' = log
          /\ \A i \in DOMAIN log :
                log[i].status = "revert_failed" => log'[i].status = "revert_failed"]_vars

\* C18 witness: a request for a row it found revert_failed, with the file at
\* the target and the source free, has been answered with 400
C18_Witness ==
    \E u \in DOMAIN undoOnes :
       /\ undoOnes[u].op.status = "revert_failed"
       /\ undoOnes[u].pc = "ended"
       /\ undoOnes[u].code = 400
       /\ exists(fs, undoOnes[u].op.target_path)
       /\ ~exists(fs, undoOnes[u].op.source_path)
       /\ log[undoOnes[u].operation_id].status = "revert_failed"

\* C19: an undo request whose pre-flight check finds the row completed, the
\* file at the target, the source free and no volume missing goes on to the
\* move without changing anything; its move, when it succeeds, puts the file
\* of the target at the source and leaves none at the target; and the write of
\* the status that follows makes the row reverted and answers 200.
C19_UndoOneSuccess ==
    [][\A u \in DOMAIN undoOnes :
          LET req == undoOnes[u]
              source == req.op.source_path
              target == req.op.target_path
          IN
          Acts(u) =>
            /\ (/\ req.pc = "preflight"
                /\ req.op.status = "completed"
                /\ exists(fs, target)
                /\ ~exists(fs, source)
                /\ ~mount_root_missing(volume.mounted, target)
                /\ ~mount_root_missing(volume.mounted, source)) =>
                   /\ undoOnes'[u].pc \in {"move", "raised"}
                   /\ fs' = fs
                   /\ log' = log
            /\ req.pc = "move" =>
                   /\ undoOnes'[u].pc \in {"mark_reverted", "mark_failed"}
                   /\ log' = log
                   /\ undoOnes'[u].pc = "mark_reverted" =>
                         /\ exists(fs, target)
                         /\ exists(fs', source)
                         /\ fs'[source] = fs[target]
                         /\ ~exists(fs', target)
                   /\ undoOnes'[u].pc = "mark_failed" => fs' = fs
            /\ req.pc = "mark_reverted" =>
                   /\ undoOnes'[u].pc \in {"ended", "raised"}
                   /\ fs' = fs
                   /\ undoOnes'[u].pc = "ended" =>
                         /\ undoOnes'[u].code = 200
                         /\ log'[req.operation_id].status = "reverted"]_vars

\* C19 witness: a request was answered 200, its row is reverted, and the file
\* is at the source and not at the target
C19_Witness ==
    \E u \in DOMAIN undoOnes :
       /\ undoOnes[u].pc = "ended"
       /\ undoOnes[u].code = 200
       /\ log[undoOnes[u].operation_id].status = "reverted"
       /\ exists(fs, undoOnes[u].op.source_path)
       /\ ~exists(fs, undoOnes[u].op.target_path)

\* C20: in an undo of a batch, a row whose pre-flight check finds the file at
\* the target, the source free and no volume missing goes on to the move; the
\* move, when it succeeds, puts the file at the source and leaves none at the
\* target; the write that follows makes the row reverted and counts it as
\* reverted, not as failed.  So a job that ended without an error has
\* reverted = total, failed = 0, done = true and every row it loaded reverted.
C20_UndoBatchSuccess ==
    /\ [](\A j \in DOMAIN undoJobs :
             LET job == undoJobs[j] IN
             (/\ job.pc = "ended"
              /\ job.progress # 0
              /\ undoObjs[job.progress].errors = <<>>) =>
                 /\ undoObjs[job.progress].total = Len(job.ops)
                 /\ undoObjs[job.progress].reverted = Len(job.ops)
                 /\ undoObjs[job.progress].failed = 0
                 /\ undoObjs[job.progress].done
                 /\ \A k \in DOMAIN job.ops :
                       log[job.ops[k].id].status = "reverted")
    /\ [][\A j \in DOMAIN undoJobs :
             LET job == undoJobs[j]
                 source == job.ops[job.k].source_path
                 target == job.ops[job.k].target_path
                 rec == undoObjs[job.progress]
             IN
             JobActs(j) =>
               /\ (/\ job.pc = "preflight"
                   /\ exists(fs, target)
                   /\ ~exists(fs, source)
                   /\ ~mount_root_missing(volume.mounted, target)
                   /\ ~mount_root_missing(volume.mounted, source)) =>
                      /\ undoJobs'[j].pc \in {"move", "ended"}
                      /\ undoJobs'[j].pc = "ended" =>
                            Len(undoObjs'[job.progress].errors) = Len(rec.errors) + 1
                      /\ fs' = fs
                      /\ log' = log
               /\ job.pc = "move" =>
                      /\ undoJobs'[j].pc \in {"mark_reverted", "mark_failed_move"}
                      /\ log' = log
                      /\ undoJobs'[j].pc = "mark_reverted" =>
                            /\ exists(fs, target)
                            /\ exists(fs', source)
                            /\ fs'[source] = fs[target]
                            /\ ~exists(fs', target)
                      /\ undoJobs'[j].pc = "mark_failed_move" => fs' = fs
               /\ (job.pc = "mark_reverted" /\ undoJobs'[j].pc # "mark_failed_move") =>
                      /\ log'[job.ops[job.k].id].status = "reverted"
                      /\ undoObjs'[job.progress].reverted = rec.reverted + 1
                      /\ undoObjs'[job.progress].failed = rec.failed
                      /\ undoObjs'[job.progress].errors = rec.errors
                      /\ undoObjs'[job.progress].done = (job.k = Len(job.ops))
                      /\ fs' = fs]_vars

\* C20 witness: an undo of a batch of two rows has ended with reverted = 2,
\* failed = 0, done, both rows reverted and both files back at their sources
C20_Witness ==
    \E j \in DOMAIN undoJobs :
       LET job == undoJobs[j] IN
       /\ job.pc = "ended"
       /\ Len(job.ops) = 2
       /\ undoObjs[job.progress].reverted = 2
       /\ undoObjs[job.progress].failed = 0
       /\ undoObjs[job.progress].done
       /\ \A k \in DOMAIN job.ops :
             /\ log[job.ops[k].id].status = "reverted"
             /\ exists(fs, job.ops[k].source_path)
             /\ ~exists(fs, job.ops[k].target_path)

C22_BatchStatusAggregation ==
    \A b \in ListedBatches :
       LET rows == {i \in DOMAIN log : log[i].batch_id = b}
           all_reverted == \A i \in rows : log[i].status = "reverted"
           some_reverted == \E i \in rows : log[i].status = "reverted"
           any_failed == \E i \in rows : log[i].status = "revert_failed"
           expected == IF all_reverted THEN "reverted"
                       ELSE IF some_reverted \/ any_failed THEN "partially_reverted"
                       ELSE "completed"
       IN batch_summary_status(log, b) = expected

\* what the resolver with candidates cand(target, N) has to return on f
ResolvedAsStated(f, target, result, cand(_, _)) ==
    /\ ~exists(f, target) => (result.ok /\ result.path = target)
    /\ (exists(f, target) /\ result.ok) =>
          \E N \in 1..ConflictLimit :
             /\ result.path = cand(target, N)
             /\ \A M \in 1..(N - 1) : exists(f, cand(target, M))
    /\ result.ok => ~exists(f, result.path)

\* C23 as stated: both resolvers return the target when it is free, else the
\* first free "stem_N", N = 1, 2, ..., and never a path that exists.
C23_ResolverPlainCounter ==
    resolved.kind # "none" =>
        ResolvedAsStated(fs, resolved.target, resolved.result, mover_candidate)

\* C23 as the code has it: the same, with "stem_N" for the mover and the
\* two-digit "stem_0N" for the renamer.
C23_ResolverPerPolicy ==
    /\ resolved.kind = "move" =>
          ResolvedAsStated(fs, resolved.target, resolved.result, mover_candidate)
    /\ resolved.kind = "rename" =>
          ResolvedAsStated(fs, resolved.target, resolved.result, renamer_candidate)

\* C23 witness: with x and x_1 taken the mover returned x_2
C23_Witness ==
    /\ resolved.kind = "move"
    /\ exists(fs, P("out", "x"))
    /\ exists(fs, <<"out", "x", <<1>>>>)
    /\ resolved.target = P("out", "x")
    /\ resolved.result.ok
    /\ resolved.result.path = <<"out", "x", <<2>>>>

\* C24: a resolver never examines more than ConflictLimit candidates, and
\* when the target and all its candidates 1..ConflictLimit are taken it fails
\* after examining exactly that many.
C24_ResolverTerminates ==
    resolved.kind # "none" =>
       LET cand(N) == IF resolved.kind = "move"
                      THEN mover_candidate(resolved.target, N)
                      ELSE renamer_candidate(resolved.target, N)
       IN
       /\ resolved.result.examined <= ConflictLimit
       /\ (/\ exists(fs, resolved.target)
           /\ \A N \in 1..ConflictLimit : exists(fs, cand(N))) =>
              /\ ~resolved.result.ok
              /\ resolved.result.examined = ConflictLimit

\* C24 witness: the renamer was called on a target whose candidates are all
\* taken and failed
C24_Witness ==
    /\ resolved.kind = "rename"
    /\ resolved.target = P("out", "x")
    /\ exists(fs, resolved.target)
    /\ \A N \in 1..ConflictLimit : exists(fs, renamer_candidate(resolved.target, N))
    /\ ~resolved.result.ok

\* C25: while an undo job for a batch is in flight and the progress record of
\* the batch says done = false, a further undo request for the batch is
\* rejected: it starts no job and leaves the progress store as it is.
C25_OneUndoJobPerBatch ==
    [][\A b \in BatchIds :
          (/\ \E j \in DOMAIN undoJobs :
                 /\ undoJobs[j].batch = b
                 /\ undoJobs[j].pc \notin {"ended", "crashed", "rejected"}
           /\ b \in DOMAIN undoProgress
           /\ ~undo_progress_of(b).done
           /\ Len(undoJobs') = Len(undoJobs) + 1
           /\ undoJobs'[Len(undoJobs')].batch = b) =>
              /\ undoJobs'[Len(undoJobs')].pc = "rejected"
              /\ undoProgress' = undoProgress
              /\ undoObjs' = undoObjs]_vars

\* C26: a step that starts an executor job is a request that names a batch in
\* the staging cache and carries a non-empty selection, so a request for an
\* unknown or consumed batch or without items starts none; and the step that
\* answers a request with an error changes no job, no file, no log row, no
\* cache and no status record.
C26_InputErrorsSynchronous ==
    [][/\ Len(moveJobs') = Len(moveJobs) + 1 =>
             /\ moveJobs'[Len(moveJobs')].batch \in DOMAIN moveCache
             /\ moveJobs'[Len(moveJobs')].sel # {}
             /\ refused' = refused
       /\ Len(renameJobs') = Len(renameJobs) + 1 =>
             /\ renameJobs'[Len(renameJobs')].batch \in DOMAIN renameCache
             /\ renameJobs'[Len(renameJobs')].items # <<>>
             /\ refused' = refused
       /\ refused' # refused =>
             /\ Len(refused') = Len(refused) + 1
             /\ refused'[Len(refused')].code \in {400, 404, 422}
             /\ moveJobs' = moveJobs
             /\ renameJobs' = renameJobs
             /\ fs' = fs
             /\ log' = log
             /\ moveCache' = moveCache
             /\ renameCache' = renameCache
             /\ moveObjs' = moveObjs
             /\ renameStatus' = renameStatus]_vars

\* C26 witness: after a move batch was executed and its job has ended with a
\* row in the log, a second execute request for the batch was answered 404
C26_Witness ==
    \E r \in DOMAIN refused, j \in DOMAIN moveJobs :
       /\ refused[r] = Refused("move", moveJobs[j].batch, 404)
       /\ moveJobs[j].pc = "ended"
       /\ \E i \in DOMAIN log : log[i].batch_id = moveJobs[j].batch
       /\ Len(moveJobs) = 1

\* what a poller reads for batch b from a store of references to records
Polled(objs, store, b) == objs[store[b]]

UndoAccepted(b) ==
    /\ Len(undoJobs') = Len(undoJobs) + 1
    /\ undoJobs'[Len(undoJobs')].batch = b
    /\ undoJobs'[Len(undoJobs')].pc = "queued"

C28_DoneMeansConsumed ==
    /\ [](/\ \A j \in DOMAIN moveJobs :
                (moveJobs[j].status # 0 /\ moveObjs[moveJobs[j].status].done) =>
                   moveJobs[j].batch \notin DOMAIN moveCache
          /\ \A j \in DOMAIN renameJobs :
                (renameJobs[j].pc # "queued" /\ renameStatus[renameJobs[j].batch].done) =>
                   renameJobs[j].batch \notin DOMAIN renameCache)
    /\ [][/\ \A j \in DOMAIN moveJobs :
                (moveJobs[j].status # 0 /\ moveObjs[moveJobs[j].status].done) =>
                   \/ Len(moveJobs') = Len(moveJobs)
                   \/ moveJobs'[Len(moveJobs')].batch # moveJobs[j].batch
          /\ \A j \in DOMAIN renameJobs :
                (renameJobs[j].pc # "queued" /\ renameStatus[renameJobs[j].batch].done) =>
                   \/ Len(renameJobs') = Len(renameJobs)
                   \/ renameJobs'[Len(renameJobs')].batch # renameJobs[j].batch]_vars

\* C29: every progress record that says done is eventually evicted from its
\* store, in the move, the rename and the undo store alike, while status polls
\* keep occurring.
C29_FinishedRecordsEvicted ==
    /\ \A b \in MoveBatchIds :
          (b \in DOMAIN moveStatus /\ moveObjs[moveStatus[b]].done)
             ~> (b \notin DOMAIN moveStatus)
    /\ \A b \in RenameBatchIds :
          (b \in DOMAIN renameStatus /\ renameStatus[b].done)
             ~> (b \notin DOMAIN renameStatus)
    /\ \A b \in MoveBatchIds \cup RenameBatchIds :
          (b \in DOMAIN undoProgress /\ undoObjs[undoProgress[b]].done)
             ~> (b \notin DOMAIN undoProgress)

\* the staged items of batch b that a request selected, in the order of the cache
StagedSelection(b, sel) ==
    IF b \in DOMAIN moveCache
    THEN SelectSeq(moveCache[b], LAMBDA it : it.id \in sel) ELSE <<>>

\* the place of scan file id in a confirmed list (of its last entry: that one's
\* name is used)
LastPos(items, id) ==
    CHOOSE k \in DOMAIN items :
        /\ items[k].scan_file_id = id
        /\ \A m \in DOMAIN items : items[m].scan_file_id = id => m <= k

ConfirmedIds(items) == {items[k].scan_file_id : k \in DOMAIN items}

Logged == Len(log') = Len(log) + 1

\* a row that is written gets an id above every id in the log
LogIdsIncrease == Logged => \A i \in DOMAIN log : log[i].id < log'[Len(log')].id

\* the mover attempts one staged item for each pass of its loop, in the order
\* of the cache, and writes the row of the item it attempted
MoverInStagingOrder ==
    \A j \in DOMAIN moveJobs :
        LET job == moveJobs[j]
            staged == StagedSelection(job.batch, job.sel)
        IN
        /\ (job.pc = "item" /\ moveJobs'[j] # job) =>
              /\ job.i \in DOMAIN staged
              /\ \A m \in fsMoves' \ fsMoves : m[1] = staged[job.i].source_path
              /\ moveJobs'[j].i = job.i
        /\ (job.pc = "log" /\ moveJobs'[j] # job /\ Logged) =>
              /\ job.i \in DOMAIN staged
              /\ log'[Len(log')].batch_id = job.batch
              /\ log'[Len(log')].source_path = staged[job.i].source_path
              /\ moveJobs'[j].i = job.i + 1

\* the rows one pass of the renamer's loop attempts (those it passes with
\* "continue" included) come after the rows attempted before, in the order
\* Before, and the row it writes is the one of the file it attempted last
RenamerInOrder(Before(_, _, _)) ==
    \A j \in DOMAIN renameJobs :
        LET job == renameJobs[j]
            last == IF renameJobs'[j].i <= Len(job.rows) THEN renameJobs'[j].i
                    ELSE Len(job.rows)
        IN
        /\ (job.pc = "item" /\ renameJobs'[j] # job) =>
              /\ \A m2 \in job.i..last : \A m1 \in 1..(m2 - 1) :
                    /\ job.rows[m2].id \in ConfirmedIds(job.items)
                    /\ Before(job.items, job.rows[m1].id, job.rows[m2].id)
              /\ \A m \in fsMoves' \ fsMoves : m[1] = ScanFiles[job.rows[last].id]
        /\ (job.pc = "log" /\ renameJobs'[j] # job /\ Logged) =>
              /\ log'[Len(log')].batch_id = job.batch
              /\ log'[Len(log')].source_path = ScanFiles[job.rows[job.i].id]
              /\ renameJobs'[j].i = job.i + 1

InListOrder(items, id1, id2) == LastPos(items, id1) < LastPos(items, id2)

InIdOrder(items, id1, id2) == id1 < id2

\* C30 as stated: both executors attempt the confirmed items one at a time in
\* the order of the staged or confirmed list, and the ids of the rows they
\* write increase in the order of the attempts.
C30_AttemptsInListOrder ==
    [][MoverInStagingOrder /\ RenamerInOrder(InListOrder) /\ LogIdsIncrease]_vars

\* C30, amended: the mover attempts the selected items in the order of the
\* staged list; the renamer attempts the files of the confirmed ids in ascending
\* order of their scan file ids, whatever the order of the confirmed list is;
\* the ids of the rows written increase in the order of the attempts.
C30_AttemptsInStoredOrder ==
    [][MoverInStagingOrder /\ RenamerInOrder(InIdOrder) /\ LogIdsIncrease]_vars

\* a rename job whose confirmed list names file 2 before file 1 has ended and the
\* row of file 1 is the first in the log
C30_Witness ==
    \E j \in DOMAIN renameJobs :
        /\ renameJobs[j].pc = "ended"
        /\ Len(renameJobs[j].items) = 2
        /\ renameJobs[j].items[1].scan_file_id = 2
        /\ renameJobs[j].items[2].scan_file_id = 1
        /\ Len(log) >= 2
        /\ log[1].batch_id = renameJobs[j].batch /\ log[1].source_path = ScanFiles[1]
        /\ log[2].batch_id = renameJobs[j].batch /\ log[2].source_path = ScanFiles[2]

\* C31: when the move of an undo request fails, the request goes on to mark
\* the row with 500 as its answer instead of raising, and changes neither a
\* file nor the log in that step; when the mark is written the row is
\* revert_failed, the answer is 500 and no other row has changed.
C31_MoveFailureReported ==
    [][\A u \in DOMAIN undoOnes :
          LET req == undoOnes[u] IN
          /\ (Acts(u) /\ req.pc = "move" /\ undoOnes'[u].pc # "mark_reverted") =>
                 /\ undoOnes'[u].pc = "mark_failed"
                 /\ undoOnes'[u].code = 500
                 /\ fs' = fs
                 /\ log' = log
          /\ (Acts(u) /\ req.pc = "mark_failed" /\ req.code = 500) =>
                 /\ fs' = fs
                 /\ undoOnes'[u].pc = "ended" =>
                       /\ undoOnes'[u].code = 500
                       /\ log'[req.operation_id].status = "revert_failed"
                       /\ \A i \in DOMAIN log : i # req.operation_id => log'[i] = log[i]]_vars

\* C31 witness: a request whose move failed was answered with 500, and its row,
\* completed when the request read it, is revert_failed
C31_Witness ==
    \E u \in DOMAIN undoOnes :
       /\ undoOnes[u].pc = "ended"
       /\ undoOnes[u].code = 500
       /\ undoOnes[u].op.status = "completed"
       /\ log[undoOnes[u].operation_id].status = "revert_failed"

\* C32: an undo request raises only where a database call fails (the read of
\* the row, the write of the status): no failure of a filesystem call in the
\* pre-flight step, which recreates the source's directory, or in the move
\* step makes the request raise instead of return.
C32_UndoOneTotal ==
    [][\A u \in DOMAIN undoOnes :
          (Acts(u) /\ undoOnes[u].pc \in {"preflight", "move"}) =>
             undoOnes'[u].pc # "raised"]_vars

\* a step that changes the filesystem moves one file from the path src to a path
\* where no file was, and leaves every other file where it is
MovesToFreePath(src) ==
    \/ fs' = fs
    \/ /\ src \in DOMAIN fs
       /\ \E dst \in (DOMAIN fs') \ (DOMAIN fs) : fs' = Put(Remove(fs, src), dst, fs[src])

\* C33: the step in which an executor attempts an item looks at the files that
\* are there in that step: it either changes no file or moves the item's file
\* to a path where no file is, so that a file at the item's target (created
\* after the preview or not) and every other file stay as they are.
C33_ExecuteNeverOverwrites ==
    [][/\ \A j \in DOMAIN moveJobs :
            (moveJobs[j].pc = "item" /\ moveJobs'[j] # moveJobs[j]) =>
               /\ MovesToFreePath(moveJobs[j].items[moveJobs[j].i].source_path)
               /\ fs' # fs => /\ fs'[moveJobs'[j].actual] = fs[moveJobs[j].items[moveJobs[j].i].source_path]
                              /\ ~exists(fs, moveJobs'[j].actual)
       /\ \A j \in DOMAIN renameJobs :
            (renameJobs[j].pc = "item" /\ renameJobs'[j] # renameJobs[j]) =>
               /\ \E src \in {ScanFiles[id] : id \in DOMAIN ScanFiles} : MovesToFreePath(src)
               /\ fs' # fs => ~exists(fs, renameJobs'[j].actual)]_vars

\* C33 witness: another program's file is at the target of a staged item, and
\* the item's file was moved to the first suffixed path and logged there
C33_Witness ==
    \E i \in DOMAIN log :
       /\ log[i].operation_type = "MOVE"
       /\ log[i].status = "completed"
       /\ log[i].source_path = P("a", "x")
       /\ log[i].target_path = mover_candidate(P("out", "x"), 1)
       /\ exists(fs, P("out", "x")) /\ fs[P("out", "x")] = "g"
       /\ exists(fs, log[i].target_path) /\ fs[log[i].target_path] = "f1"

\* the files that are somewhere in the filesystem
FilesOf(f) == {f[p] : p \in DOMAIN f}

\* C34: the step in which an undo, of one row or of a batch, moves the file
\* back finds no file at the row's source path, and every file that is there
\* before the step is there after it.
C34_UndoNeverOverwrites ==
    [][/\ \A u \in DOMAIN undoOnes :
            (Acts(u) /\ undoOnes[u].pc = "move" /\ fs' # fs) =>
               /\ ~exists(fs, undoOnes[u].op.source_path)
               /\ FilesOf(fs) \subseteq FilesOf(fs')
       /\ \A j \in DOMAIN undoJobs :
            (JobActs(j) /\ undoJobs[j].pc = "move" /\ fs' # fs) =>
               /\ ~exists(fs, undoJobs[j].ops[undoJobs[j].k].source_path)
               /\ FilesOf(fs) \subseteq FilesOf(fs')]_vars

\* every file that is there is where it was before the batch was executed
AtHome(f) == \A p \in DOMAIN f : p \in DOMAIN RoundHome /\ f[p] = RoundHome[p]

\* C35: while no call has failed, no step loses or creates a file; an undo job
\* that ends has made every row it read (the completed rows of its batch)
\* reverted; and once the jobs have ended and no row is completed any more,
\* every file is where it was before the batch was executed.
C35_RoundTrip ==
    /\ [](disturbances = 0 =>
            ((ExecutorsIdle /\ UndosIdle /\ \A i \in DOMAIN log : log[i].status # "completed")
                => AtHome(fs)))
    /\ [][disturbances' = 0 =>
            /\ FilesOf(fs') = FilesOf(fs)
            /\ \A j \in DOMAIN undoJobs :
                  /\ (JobActs(j) /\ undoJobs[j].pc = "queued") =>
                        {undoJobs'[j].ops[k].id : k \in DOMAIN undoJobs'[j].ops}
                           = CompletedIds(log, undoJobs[j].batch)
                  /\ (JobActs(j) /\ undoJobs'[j].pc = "ended") =>
                        \A k \in DOMAIN undoJobs[j].ops :
                           log'[undoJobs[j].ops[k].id].status = "reverted"]_vars

\* C35 witness: two items that had one target were moved, the second one to the
\* suffixed path next to a file that was there before, and undone without a
\* failure: both rows are reverted and both files are back
C35_Witness ==
    /\ disturbances = 0
    /\ ExecutorsIdle /\ UndosIdle
    /\ Len(log) = 2
    /\ log[1].target_path = P("out", "x")
    /\ log[2].target_path = mover_candidate(P("out", "x"), 2)
    /\ log[1].status = "reverted" /\ log[2].status = "reverted"
    /\ fs = [p \in DOMAIN RoundHome \ {P("out", "x")} |-> RoundHome[p]]

\* the source paths of the items staged for a move batch, and of the scan files
\* staged for a rename batch
StagedMoveSources(b) ==
    IF b \in DOMAIN moveCache
    THEN {moveCache[b][k].source_path : k \in DOMAIN moveCache[b]} ELSE {}

StagedScanIds(b) ==
    IF b \in DOMAIN renameCache
    THEN {renameCache[b][k].scan_file_id : k \in DOMAIN renameCache[b]} ELSE {}

\* C36: an execute request that starts a job names only items staged for its
\* batch (selected ids of the staged move items, scan files of the staged
\* rename preview), and a step of an execute job takes no file away from a
\* path other than the source paths of the items staged for its batch.
C36_OnlyStagedFiles ==
    [][/\ Len(moveJobs') > Len(moveJobs) =>
            moveJobs'[Len(moveJobs')].sel
               \subseteq CachedIds(moveCache[moveJobs'[Len(moveJobs')].batch])
       /\ Len(renameJobs') > Len(renameJobs) =>
            ConfirmedIds(renameJobs'[Len(renameJobs')].items)
               \subseteq StagedScanIds(renameJobs'[Len(renameJobs')].batch)
       /\ \A j \in DOMAIN moveJobs :
            (moveJobs[j].pc = "item" /\ moveJobs'[j] # moveJobs[j]) =>
               (DOMAIN fs) \ (DOMAIN fs') \subseteq StagedMoveSources(moveJobs[j].batch)
       /\ \A j \in DOMAIN renameJobs :
            (renameJobs[j].pc = "item" /\ renameJobs'[j] # renameJobs[j]) =>
               (DOMAIN fs) \ (DOMAIN fs')
                  \subseteq {ScanFiles[id] : id \in StagedScanIds(renameJobs[j].batch)
                                                       \cap DOMAIN ScanFiles}]_vars

\* the source paths of the staged items of b whose id is in sel
SelectedSources(b, sel) ==
    {StagedSelection(b, sel)[k].source_path : k \in DOMAIN StagedSelection(b, sel)}

\* C37: a move job sets total to the number of staged items whose id is
\* selected when it starts; each of its item steps takes no file away but from
\* the source of a selected item; each row it writes has the source of a
\* selected item; and its loop ends after one pass for each selected item.
C37_SelectionOnly ==
    [][\A j \in DOMAIN moveJobs :
          LET job == moveJobs[j]
              b == job.batch
          IN
          (moveJobs'[j] # job /\ b \in DOMAIN moveCache) =>
            /\ (job.pc = "queued" /\ moveJobs'[j].pc # "crashed") =>
                  moveObjs'[moveJobs'[j].status].total
                     = Cardinality(job.sel \cap CachedIds(moveCache[b]))
            /\ job.pc = "item" =>
                  /\ (DOMAIN fs) \ (DOMAIN fs') \subseteq SelectedSources(b, job.sel)
                  /\ log' = log
            /\ job.pc = "log" =>
                  /\ fs' = fs
                  /\ Logged => log'[Len(log')].source_path \in SelectedSources(b, job.sel)
            /\ (job.pc # "finish" /\ moveJobs'[j].pc = "finish") =>
                  moveJobs'[j].i = Len(StagedSelection(b, job.sel)) + 1
            /\ job.pc \in {"finish", "close"} => (fs' = fs /\ log' = log)]_vars

\* C37 witness: a job for the selection {1} has ended with total 1 and moved 1;
\* the log holds one row, that of item 1, and the file of item 0 is at its source
C37_Witness ==
    \E j \in DOMAIN moveJobs :
       /\ moveJobs[j].pc = "ended"
       /\ moveJobs[j].sel = {1}
       /\ moveObjs[moveJobs[j].status].total = 1
       /\ moveObjs[moveJobs[j].status].moved = 1
       /\ Len(log) = 1
       /\ log[1].source_path = P("b", "x")
       /\ exists(fs, P("a", "x")) /\ fs[P("a", "x")] = "f1"
       /\ ~exists(fs, P("b", "x"))

\* row r of a rename job is a no-op: its file exists and has the confirmed name
IsNoop(r) == exists(fs, r.path) /\ name_of(r.path) = <<r.new_name, <<>>>>

\* C38: a pass of the rename loop that meets a row whose file exists under the
\* confirmed name counts it in renamed, leaves failed as it is for it, leaves
\* the file where it is and writes no row: when the loop ends with that row,
\* renamed has grown by the rows passed and nothing else has changed.
C38_RenameNoop ==
    [][\A j \in DOMAIN renameJobs :
          LET job == renameJobs[j]
              b == job.batch
              passed == renameJobs'[j].i - job.i
          IN
          (/\ job.pc = "item" /\ renameJobs'[j] # job
           /\ job.i <= Len(job.rows) /\ IsNoop(job.rows[job.i])) =>
             /\ passed >= 1
             /\ \A m \in job.i..(job.i + passed - 1) :
                   /\ IsNoop(job.rows[m])
                   /\ exists(fs', job.rows[m].path)
                   /\ fs'[job.rows[m].path] = fs[job.rows[m].path]
             /\ log' = log
             /\ renameStatus'[b].renamed + renameStatus'[b].failed
                   = renameStatus[b].renamed + renameStatus[b].failed + passed
                        + (IF renameJobs'[j].pc = "log" THEN 1 ELSE 0)
             /\ renameJobs'[j].pc # "log" =>
                   /\ fs' = fs
                   /\ renameStatus'[b].renamed = renameStatus[b].renamed + passed
                   /\ renameStatus'[b].failed = renameStatus[b].failed]_vars

\* C38 witness: a job whose only row asked for the name the file has is done
\* with renamed 1 and failed 0; the file is where it was and the log is empty
C38_Witness ==
    \E j \in DOMAIN renameJobs :
       /\ renameJobs[j].pc = "ended"
       /\ Len(renameJobs[j].rows) = 1
       /\ renameJobs[j].rows[1].new_name = "x"
       /\ renameStatus[renameJobs[j].batch].renamed = 1
       /\ renameStatus[renameJobs[j].batch].failed = 0
       /\ renameStatus[renameJobs[j].batch].done
       /\ fs = InitFs
       /\ log = <<>>

\* the rows an undo job of batch b may act on: those of b that are completed
UndoableRows(b) == CompletedIds(log, b)

\* C39: a step of the undo job of batch b changes nothing of a row but its
\* status, and only of a row of b that is completed; the only paths whose
\* content it changes are the target_path and the source_path of such a row.
\* Rows of other batches and rows of b that are not completed stay as they are.
C39_UndoBatchIsolation ==
    [][\A j \in DOMAIN undoJobs :
          LET b == undoJobs[j].batch IN
          JobActs(j) =>
             /\ Len(log') = Len(log)
             /\ \A i \in DOMAIN log :
                   log'[i] # log[i] =>
                      /\ i \in UndoableRows(b)
                      /\ log'[i] = [log[i] EXCEPT !.status = log'[i].status]
             /\ \A p \in (DOMAIN fs) \cup (DOMAIN fs') :
                   (~(p \in DOMAIN fs /\ p \in DOMAIN fs' /\ fs'[p] = fs[p])) =>
                      \E i \in UndoableRows(b) :
                         /\ p \in {log[i].target_path, log[i].source_path}
                         /\ log[i].target_path \in DOMAIN fs
                         /\ log[i].target_path \notin DOMAIN fs'
                         /\ log[i].source_path \in DOMAIN fs'
                         /\ fs'[log[i].source_path] = fs[log[i].target_path]]_vars

\* C39 witness: the undo of the move batch is done; its completed row is
\* reverted, its failed row is still failed, and the completed row of the
\* rename batch is still completed with its file under the new name
C39_Witness ==
    \E j \in DOMAIN undoJobs, i, k, r \in DOMAIN log :
       /\ undoJobs[j].pc = "ended"
       /\ undoJobs[j].batch \in MoveBatchIds
       /\ log[i].batch_id = undoJobs[j].batch /\ log[i].status = "reverted"
       /\ log[k].batch_id = undoJobs[j].batch /\ log[k].status = "failed"
       /\ log[r].batch_id \in RenameBatchIds /\ log[r].status = "completed"
       /\ exists(fs, log[r].target_path)
       /\ exists(fs, log[i].source_path)

====
